---- MODULE Spec2Model ----
(***************************************************************************)
(* Model of the legal RAG service: the lexical/vector fusion retriever     *)
(* (hybrid_retriever.py), the vector store's search (vector_store.py) and  *)
(* the turn orchestrator with its greeting classifier, query-rewrite       *)
(* heuristic and context budget loop (rag_pipeline.py).                    *)
(*                                                                         *)
(* Texts whose content is inspected (queries, passages, generated          *)
(* rewrites) are sequences of one-character strings; texts of which the    *)
(* code only uses the length (conversation context, retrieved context)     *)
(* are represented by their length in characters.                          *)
(***************************************************************************)
EXTENDS Integers, Sequences, FiniteSets, TLC

(***************************************************************************)
(* Python string primitives used by the source.                            *)
(***************************************************************************)
UpperChars ==
    << "A", "B", "C", "D", "E", "F", "G", "H", "I", "J", "K", "L", "M",
       "N", "O", "P", "Q", "R", "S", "T", "U", "V", "W", "X", "Y", "Z" >>

LowerChars ==
    << "a", "b", "c", "d", "e", "f", "g", "h", "i", "j", "k", "l", "m",
       "n", "o", "p", "q", "r", "s", "t", "u", "v", "w", "x", "y", "z" >>

DigitChars == { "0", "1", "2", "3", "4", "5", "6", "7", "8", "9" }

\* str.lower() on one character
LowerChar(c) ==
    IF \E i \in 1..Len(UpperChars) : UpperChars[i] = c
    THEN LowerChars[CHOOSE i \in 1..Len(UpperChars) : UpperChars[i] = c]
    ELSE c

\* str.lower()
Lower(s) == [i \in 1..Len(s) |-> LowerChar(s[i])]

\* the characters str.split(), str.strip() and the regex class \s treat as blank
IsSpace(c) == c \in { " ", "\t", "\n" }

\* the regex class \w
IsWordChar(c) ==
    \/ \E i \in 1..Len(LowerChars) : LowerChars[i] = c \/ UpperChars[i] = c
    \/ c \in DigitChars
    \/ c = "_"

RECURSIVE LStrip(_)
LStrip(s) == IF s # << >> /\ IsSpace(Head(s)) THEN LStrip(Tail(s)) ELSE s

RECURSIVE RStrip(_)
RStrip(s) ==
    IF s # << >> /\ IsSpace(s[Len(s)]) THEN RStrip(SubSeq(s, 1, Len(s) - 1)) ELSE s

\* str.strip()
Strip(s) == RStrip(LStrip(s))

\* the first blank-delimited word of a text that starts with a non-blank
FirstWord(s) ==
    LET blanks == { i \in 1..Len(s) : IsSpace(s[i]) }
    IN  IF blanks = { } THEN s
        ELSE SubSeq(s, 1, (CHOOSE i \in blanks : \A j \in blanks : i <= j) - 1)

\* str.split() without arguments: the maximal runs of non-blank characters
RECURSIVE Split(_)
Split(s) ==
    LET t == LStrip(s)
    IN  IF t = << >> THEN << >>
        ELSE LET w == FirstWord(t)
             IN  << w >> \o Split(SubSeq(t, Len(w) + 1, Len(t)))

\* len(text.split())
WordCount(s) == Len(Split(s))

\* str.startswith
StartsWith(s, p) == Len(p) <= Len(s) /\ SubSeq(s, 1, Len(p)) = p

\* p occurs in s at position i
OccursAt(s, p, i) == i >= 1 /\ i + Len(p) - 1 <= Len(s) /\ SubSeq(s, i, i + Len(p) - 1) = p

\* the substring test `p in s`
Contains(s, p) == \E i \in 1..(Len(s) + 1) : OccursAt(s, p, i)

\* list membership `x in [..]`
InList(x, list) == \E i \in 1..Len(list) : list[i] = x

\* re.search(r'\bw\b', s) for a word w made of \w characters
WordMatch(s, w) ==
    \E i \in 1..Len(s) :
        /\ OccursAt(s, w, i)
        /\ (i = 1 \/ ~IsWordChar(s[i - 1]))
        /\ (i + Len(w) > Len(s) \/ ~IsWordChar(s[i + Len(w)]))


(***************************************************************************)
(* The fixed word lists of rag_pipeline.py.                                *)
(***************************************************************************)
single_word_greetings ==
    << <<"h", "i">>,
       <<"h", "e", "y">>,
       <<"h", "e", "l", "l", "o">>,
       <<"y", "o">>,
       <<"t", "h", "a", "n", "k", "s">>,
       <<"t", "h", "x">>,
       <<"b", "y", "e">> >>
greeting_patterns ==
    << <<"g", "o", "o", "d", " ", "m", "o", "r", "n", "i", "n", "g">>,
       <<"g", "o", "o", "d", " ", "n", "i", "g", "h", "t">>,
       <<"g", "o", "o", "d", " ", "e", "v", "e", "n", "i", "n", "g">>,
       <<"t", "h", "a", "n", "k", " ", "y", "o", "u">>,
       <<"t", "h", "a", "n", "k", "s", " ", "a", " ", "l", "o", "t">> >>
legal_keywords ==
    << <<"a", "r", "t", "i", "c", "l", "e">>,
       <<"s", "e", "c", "t", "i", "o", "n">>,
       <<"a", "c", "t">>,
       <<"l", "a", "w">>,
       <<"r", "i", "g", "h", "t", "s">>,
       <<"i", "p", "c">>,
       <<"j", "u", "d", "g", "m", "e", "n", "t">>,
       <<"j", "u", "d", "g", "e", "m", "e", "n", "t">>,
       <<"c", "o", "u", "r", "t">>,
       <<"s", "t", "a", "t", "u", "t", "e">>,
       <<"c", "o", "n", "t", "r", "a", "c", "t">>,
       <<"e", "v", "i", "d", "e", "n", "c", "e">>,
       <<"p", "e", "n", "a", "l", "t", "y">>,
       <<"f", "i", "n", "e">>,
       <<"o", "f", "f", "e", "n", "c", "e">>,
       <<"c", "r", "i", "m", "e">>,
       <<"l", "i", "a", "b", "l", "e">>,
       <<"l", "i", "a", "b", "i", "l", "i", "t", "y">>,
       <<"d", "i", "v", "o", "r", "c", "e">>,
       <<"m", "a", "r", "r", "i", "a", "g", "e">>,
       <<"c", "u", "s", "t", "o", "d", "y">>,
       <<"w", "r", "i", "t">>,
       <<"i", "n", "j", "u", "n", "c", "t", "i", "o", "n">> >>
informational_starters ==
    << <<"e", "x", "p", "l", "a", "i", "n">>,
       <<"w", "h", "a", "t", " ", "i", "s">>,
       <<"w", "h", "a", "t", " ", "a", "r", "e">>,
       <<"w", "h", "a", "t", " ", "w", "a", "s">>,
       <<"w", "h", "a", "t", " ", "d", "o", "e", "s">>,
       <<"w", "h", "o">>,
       <<"w", "h", "e", "n">>,
       <<"w", "h", "e", "r", "e">>,
       <<"w", "h", "y">>,
       <<"h", "o", "w">>,
       <<"w", "h", "i", "c", "h">>,
       <<"d", "e", "f", "i", "n", "e">>,
       <<"d", "e", "s", "c", "r", "i", "b", "e">>,
       <<"l", "i", "s", "t">>,
       <<"t", "e", "l", "l", " ", "m", "e", " ", "a", "b", "o", "u", "t">> >>
specific_legal_terms ==
    << <<"a", "r", "t", "i", "c", "l", "e">>,
       <<"s", "e", "c", "t", "i", "o", "n">>,
       <<"a", "c", "t">>,
       <<"i", "p", "c">>,
       <<"c", "r", "p", "c">>,
       <<"c", "o", "n", "s", "t", "i", "t", "u", "t", "i", "o", "n">>,
       <<"a", "m", "e", "n", "d", "m", "e", "n", "t">>,
       <<"s", "c", "h", "e", "d", "u", "l", "e">>,
       <<"p", "a", "n", "c", "h", "a", "y", "a", "t">>,
       <<"f", "u", "n", "d", "a", "m", "e", "n", "t", "a", "l", " ", "r", "i", "g", "h", "t", "s">>,
       <<"d", "i", "r", "e", "c", "t", "i", "v", "e", " ", "p", "r", "i", "n", "c", "i", "p", "l", "e", "s">>,
       <<"u", "d", "h", "r">>,
       <<"i", "c", "c", "p", "r">> >>
\* the words of the patterns \bthat\b, \bthis\b, \bthose\b, \bit\b, \bthem\b
follow_up_words ==
    << <<"t", "h", "a", "t">>,
       <<"t", "h", "i", "s">>,
       <<"t", "h", "o", "s", "e">>,
       <<"i", "t">>,
       <<"t", "h", "e", "m">> >>
\* the alternatives of ^(more|another)
follow_up_prefixes ==
    << <<"m", "o", "r", "e">>,
       <<"a", "n", "o", "t", "h", "e", "r">> >>
\* the verbs and objects of ^(give|show|provide)\s+(me\s+)?(examples?|details?)
follow_up_verbs ==
    << <<"g", "i", "v", "e">>,
       <<"s", "h", "o", "w">>,
       <<"p", "r", "o", "v", "i", "d", "e">> >>
follow_up_objects ==
    << <<"e", "x", "a", "m", "p", "l", "e">>,
       <<"d", "e", "t", "a", "i", "l">> >>
\* A single-word query counts as a greeting only with this many words.
SingleWordLimit == 1

\* Polite phrases are looked up only for queries of at most this many words.
PhraseWordLimit == 2

\* Queries longer than this many characters are informational.
InformationalLength == 40

\* Queries with more than this many words are never rewritten.
DetailedQueryWords == 15

\* A rewrite with more than this many times the query's words is discarded.
VerboseFactor == 2

(***************************************************************************)
(* RAGPipeline.is_greeting                                                 *)
(***************************************************************************)
is_greeting(query) ==
    IF query = << >> THEN FALSE
    ELSE LET q == Lower(Strip(query))
         IN  IF WordCount(q) = SingleWordLimit /\ InList(q, single_word_greetings)
             THEN TRUE
             ELSE IF WordCount(q) <= PhraseWordLimit /\ InList(q, greeting_patterns)
                  THEN TRUE
                  ELSE FALSE

(***************************************************************************)
(* RAGPipeline.is_informational                                            *)
(***************************************************************************)
is_informational(query) ==
    IF query = << >> THEN FALSE
    ELSE LET q == Lower(Strip(query))
         IN  IF Contains(q, << "?" >>) THEN TRUE
             ELSE IF Len(q) > InformationalLength THEN TRUE
             ELSE \E i \in 1..Len(legal_keywords) : Contains(q, legal_keywords[i])

(***************************************************************************)
(* RAGPipeline.rewrite_query_with_context: rules 1 to 5                    *)
(***************************************************************************)
\* rule 3: query.lower().strip().startswith(starter) for some starter
StartsInformational(query) ==
    \E i \in 1..Len(informational_starters) :
        StartsWith(Strip(Lower(query)), informational_starters[i])

\* rule 4: some term is a substring of query.lower()
HasLegalTerm(query) ==
    \E i \in 1..Len(specific_legal_terms) :
        Contains(Lower(query), specific_legal_terms[i])

\* (examples?|details?) matched at the start of t
ObjectAt(t) == \E i \in 1..Len(follow_up_objects) : StartsWith(t, follow_up_objects[i])

\* ^(give|show|provide)\s+(me\s+)?(examples?|details?) searched in s
GiveExamplesMatch(s) ==
    \E i \in 1..Len(follow_up_verbs) :
        /\ StartsWith(s, follow_up_verbs[i])
        /\ LET r == SubSeq(s, Len(follow_up_verbs[i]) + 1, Len(s))
           IN  /\ r # << >>
               /\ IsSpace(Head(r))
               /\ LET r1 == LStrip(r)
                  IN  \/ ObjectAt(r1)
                      \/ /\ StartsWith(r1, << "m", "e" >>)
                         /\ LET r2 == SubSeq(r1, 3, Len(r1))
                            IN  r2 # << >> /\ IsSpace(Head(r2)) /\ ObjectAt(LStrip(r2))

\* rule 5: any(re.search(pattern, query.lower()) for pattern in strong_follow_up_patterns)
has_follow_up(query) ==
    LET s == Lower(query)
    IN  \/ \E i \in 1..Len(follow_up_words) : WordMatch(s, follow_up_words[i])
        \/ \E i \in 1..Len(follow_up_prefixes) : StartsWith(s, follow_up_prefixes[i])
        \/ GiveExamplesMatch(s)

\* The rules with the follow-up test moved before the informational-starter test.
RewriteDecisionFollowUpFirst(query, ctxLen) ==
    IF ctxLen = 0 THEN "skip_no_context"
    ELSE IF WordCount(query) > DetailedQueryWords THEN "skip_detailed"
    ELSE IF has_follow_up(query) THEN "attempt"
    ELSE "skip_no_follow_up"

\* The ordered rules; "attempt" is the only outcome that reaches the generator.
\* ctxLen is the length of the conversation context (rule 1 tests emptiness).
RewriteDecision(query, ctxLen) ==
    IF ctxLen = 0 THEN "skip_no_context"
    ELSE IF WordCount(query) > DetailedQueryWords THEN "skip_detailed"
    ELSE IF StartsInformational(query) THEN "skip_informational"
    ELSE IF HasLegalTerm(query) THEN "skip_legal_term"
    ELSE IF ~has_follow_up(query) THEN "skip_no_follow_up"
    ELSE "attempt"

\* The safety check with the comparison dropped: every rewrite is accepted.
RewriteAcceptedAlways(query, rewritten) == TRUE

\* the safety check: the rewrite is kept unless it is too verbose
RewriteAccepted(query, rewritten) ==
    ~(WordCount(rewritten) > WordCount(query) * VerboseFactor)

\* The text-generation collaborator either fails (ok = FALSE) or returns a text.
\* rewrite_query_with_context for one outcome gen of the generator call.
rewrite_query_with_context(query, ctxLen, gen) ==
    IF RewriteDecision(query, ctxLen) # "attempt" THEN query
    ELSE IF ~gen.ok THEN query
    ELSE LET rewritten == Strip(gen.text)
         IN  IF RewriteAccepted(query, rewritten) THEN rewritten ELSE query

(***************************************************************************)
(* Inputs of the heuristics' specification.                                *)
(***************************************************************************)
HeurQueries ==
    << <<>>,
       <<"h", "i">>,
       <<" ", "H", "i", " ">>,
       <<"H", "E", "L", "L", "O">>,
       <<"h", "e", "y">>,
       <<"y", "o">>,
       <<"t", "h", "a", "n", "k", "s">>,
       <<"t", "h", "x">>,
       <<"b", "y", "e">>,
       <<"g", "o", "o", "d", " ", "m", "o", "r", "n", "i", "n", "g">>,
       <<"G", "o", "o", "d", " ", "N", "i", "g", "h", "t">>,
       <<"g", "o", "o", "d", " ", "e", "v", "e", "n", "i", "n", "g">>,
       <<"t", "h", "a", "n", "k", " ", "y", "o", "u">>,
       <<"t", "h", "a", "n", "k", "s", " ", "a", " ", "l", "o", "t">>,
       <<"g", "o", "o", "d", " ", " ", "m", "o", "r", "n", "i", "n", "g">>,
       <<"h", "i", " ", "t", "h", "e", "r", "e">>,
       <<"h", "i", "?">>,
       <<"h", "e", "l", "l", "o", "\n">>,
       <<"t", "h", "a", "n", "k", "s", " ", "a">>,
       <<"m", "o", "r", "n", "i", "n", "g">>,
       <<"i", "t", " ", "i", "s">>,
       <<"e", "x", "p", "l", "a", "i", "n", " ", "t", "h", "a", "t", " ", "a", "r", "t", "i", "c", "l", "e">>,
       <<"w", "h", "a", "t", " ", "a", "b", "o", "u", "t", " ", "t", "h", "i", "s">>,
       <<"m", "o", "r", "e">>,
       <<"a", "n", "o", "t", "h", "e", "r", " ", "e", "x", "a", "m", "p", "l", "e">>,
       <<"g", "i", "v", "e", " ", "m", "e", " ", "e", "x", "a", "m", "p", "l", "e", "s">>,
       <<"s", "h", "o", "w", " ", "d", "e", "t", "a", "i", "l", "s">>,
       <<"p", "r", "o", "v", "i", "d", "e", " ", " ", "m", "e", " ", " ", "d", "e", "t", "a", "i", "l">>,
       <<"g", "i", "v", "e", " ", "e", "x", "a", "m", "p", "l", "e", "s">>,
       <<"t", "h", "a", "t", " ", "f", "a", "c", "t">>,
       <<"t", "e", "l", "l", " ", "m", "e", " ", "m", "o", "r", "e">>,
       <<"t", "h", "e", "m">>,
       <<"b", "i", "t", "t", "e", "r">>,
       <<" ", " ", "i", "t", " ", "i", "s">>,
       <<"I", "t", " ", "I", "s">>,
       <<"E", "x", "p", "l", "a", "i", "n", " ", "t", "h", "a", "t">>,
       <<" ", "e", "x", "p", "l", "a", "i", "n", " ", "i", "t">>,
       <<"t", "h", "i", "s", " ", "s", "e", "c", "t", "i", "o", "n">>,
       <<"t", "h", "o", "s", "e">>,
       <<"s", "h", "o", "w", " ", "m", "e", " ", "t", "h", "e", " ", "d", "e", "t", "a", "i", "l", "s">>,
       <<"l", "i", "s", "t", " ", "t", "h", "e", "m">>,
       <<"t", "e", "l", "l", " ", "m", "e", " ", "a", "b", "o", "u", "t", " ", "i", "t">>,
       <<"a", "n", "d", " ", "m", "o", "r", "e">>,
       <<"i", "t", "s">>,
       <<"h", "i", ",", " ", "w", "h", "a", "t", " ", "i", "s", " ", "A", "r", "t", "i", "c", "l", "e", " ", "2", "1", "?">>,
       <<"i", "s", " ", "i", "t">>,
       <<"g", "i", "v", "e", " ", "m", "e">>,
       <<"w", "h", "o", " ", "i", "s", " ", "i", "t">>,
       <<"i", "t", " ", "a", " ", "a", " ", "a", " ", "a", " ", "a", " ", "a", " ", "a", " ", "a", " ", "a", " ", "a", " ", "a", " ", "a", " ", "a", " ", "a", " ", "a">>,
       <<"i", "t", " ", "a", " ", "a", " ", "a", " ", "a", " ", "a", " ", "a", " ", "a", " ", "a", " ", "a", " ", "a", " ", "a", " ", "a", " ", "a", " ", "a">>,
       <<"x", "x", "x", "x", "x", "x", "x", "x", "x", "x", "x", "x", "x", "x", "x", "x", "x", "x", "x", "x", "x", "x", "x", "x", "x", "x", "x", "x", "x", "x", "x", "x", "x", "x", "x", "x", "x", "x", "x", "x", "x">> >>
GenTexts ==
    << <<>>,
       <<"w", "h", "a", "t", " ", "i", "s", " ", "a", "r", "t", "i", "c", "l", "e", " ", "2", "1">>,
       <<" ", " ", "i", "s", " ", "a", "r", "t", "i", "c", "l", "e", " ", "2", "1", " ", "v", "a", "l", "i", "d", " ", "\n">>,
       <<"i", "s", " ", "t", "h", "e", " ", "r", "i", "g", "h", "t", " ", "t", "o", " ", "l", "i", "f", "e", " ", "v", "a", "l", "i", "d">>,
       <<"a", " ", "b", " ", "c", " ", "d", " ", "e", " ", "f", " ", "g", " ", "h", " ", "i", " ", "j", " ", "k", " ", "l", " ", "m", " ", "n", " ", "o", " ", "p", " ", "q", " ", "r", " ", "s", " ", "t", " ", "u", " ", "v", " ", "w", " ", "x", " ", "y", " ", "z", " ", "a", " ", "b", " ", "c", " ", "d", " ", "e">>,
       <<"r", "i", "g", "h", "t", "s">>,
       <<"t", "w", "o", " ", "w", "o", "r", "d", "s">> >>
\* lengths of the conversation context offered to the rewrite heuristic
HeurCtxLens == { 0, 120 }

GenOutcomes ==
    { [ok |-> FALSE, text |-> << >>] } \cup
    { [ok |-> TRUE, text |-> GenTexts[i]] : i \in 1..Len(GenTexts) }

NoGen == [ok |-> FALSE, text |-> << >>]

(***************************************************************************)
(* HybridRetriever and VectorStore.search.                                 *)
(*                                                                         *)
(* A score is an exact fraction [n |-> numerator, d |-> denominator]:      *)
(* fused scores over the common denominator 10 * RankDenominators (alpha   *)
(* is given in tenths), similarities of the vector index in hundredths.    *)
(***************************************************************************)
\* rrf_k, the reciprocal-rank-fusion constant
rrf_k == 60

\* the blend factor retrieve_context passes to the fusion search, in tenths
RetrieveAlpha == 9

\* retrieve_context keeps passages scoring above 0.2, i.e. above 1/ThresholdInverse
ThresholdInverse == 5

\* tokens of at most this many characters are dropped by both tokenizers
ShortToken == 1

\* both ranked lists are cut to this many times k entries
TopFactor == 3

\* largest k the fusion specification asks for
MaxSearchK == 2

\* largest lexical score the scorer reports for a passage
MaxLexScore == 1

Doc_article21 == <<"A", "r", "t", "i", "c", "l", "e", " ", "2", "1", " ", "p", "r", "o", "t", "e", "c", "t", "s", " ", "r", "i", "g", "h", "t", " ", "t", "o", " ", "l", "i", "f", "e", ".">>

Doc_article14 == <<"A", "r", "t", "i", "c", "l", "e", " ", "1", "4", " ", "e", "n", "s", "u", "r", "e", "s", " ", "e", "q", "u", "a", "l", "i", "t", "y", ".">>

\* the corpus of the lexical-only scenario
CorpusScenario == << Doc_article21, Doc_article14 >>

\* a corpus whose second passage repeats verbatim
CorpusRepeat ==
    << <<"r", "i", "g", "h", "t", " ", "t", "o", " ", "l", "i", "f", "e">>,
       <<"e", "q", "u", "a", "l", "i", "t", "y", " ", "l", "a", "w">>,
       <<"e", "q", "u", "a", "l", "i", "t", "y", " ", "l", "a", "w">> >>

\* a corpus larger than 3k for k = 1, whose last passage has no scorable token
CorpusFour ==
    << <<"l", "i", "f", "e">>,
       <<"e", "q", "u", "a", "l", "i", "t", "y", " ", "l", "a", "w">>,
       <<"c", "o", "u", "r", "t", " ", "o", "r", "d", "e", "r">>,
       <<"a">> >>

\* a corpus larger than 3k for k = 1 whose second passage repeats verbatim
CorpusFourRepeat ==
    << <<"l", "i", "f", "e">>,
       <<"e", "q", "u", "a", "l", "i", "t", "y", " ", "l", "a", "w">>,
       <<"e", "q", "u", "a", "l", "i", "t", "y", " ", "l", "a", "w">>,
       <<"a">> >>

\* the corpora of the fusion specification; the one-passage corpus is smaller
\* than the k asked for
Corpora == { << >>, << Doc_article21 >>, CorpusScenario, CorpusRepeat, CorpusFour, CorpusFourRepeat }

Query_life == <<"l", "i", "f", "e">>

SearchQueries ==
    { Query_life,
      <<"l", "i", "f", "e", " ", "l", "a", "w">>,
      <<"e", "q", "u", "a", "l", "i", "t", "y", " ", "l", "a", "w">>,
      <<"a", " ", "?">>,
      << >> }

\* blend factors in tenths: 0, 0.5, 0.9 and 1
Alphas == { 0, 5, 9, 10 }

\* the size of the largest corpus
MaxCorpus == CHOOSE n \in 0..16 : (\E c \in Corpora : Len(c) = n) /\ (\A c \in Corpora : Len(c) <= n)

\* the sentinel token of a passage without scorable tokens
EmptyToken == <<"e", "m", "p", "t", "y">>

RECURSIVE DropShort(_)
DropShort(ws) ==
    IF ws = << >> THEN << >>
    ELSE IF Len(Head(ws)) > ShortToken THEN << Head(ws) >> \o DropShort(Tail(ws))
         ELSE DropShort(Tail(ws))

\* text.lower().split() with the tokens of length <= 1 dropped
Tokenize(text) == DropShort(Split(Lower(text)))

\* the tokens BM25 is built from: a passage without tokens becomes ["empty"]
DocTokens(doc) == IF Tokenize(doc) = << >> THEN << EmptyToken >> ELSE Tokenize(doc)

\* HybridRetriever.__init__: the tokenized corpus BM25 is built from
RECURSIVE TokenizeCorpus(_)
TokenizeCorpus(docs) ==
    IF docs = << >> THEN << >> ELSE << DocTokens(Head(docs)) >> \o TokenizeCorpus(Tail(docs))

\* the query tokens that occur among a passage's tokens
MatchedTokens(tokens, qtokens) ==
    { qtokens[i] : i \in 1..Len(qtokens) } \cap { tokens[j] : j \in 1..Len(tokens) }

\* in how many passages a token occurs
DocFrequency(tokenized, t) ==
    Cardinality({ i \in 1..Len(tokenized) : \E j \in 1..Len(tokenized[i]) : tokenized[i][j] = t })

\* What BM25Okapi fixes about one passage's score. A score is the sum, over the
\* query tokens that occur in the passage, of idf * (a positive term); the IDF
\* log((N - n + 0.5) / (n + 0.5)) of a token in n of N passages is positive for
\* 2n < N, zero for 2n = N, and is replaced by a corpus-wide value otherwise.
ScoreClass(tokenized, tokens, qtokens) ==
    LET m == MatchedTokens(tokens, qtokens)
    IN  IF m = { } THEN "zero"
        ELSE IF \A t \in m : 2 * DocFrequency(tokenized, t) < Len(tokenized) THEN "positive"
        ELSE IF \A t \in m : 2 * DocFrequency(tokenized, t) = Len(tokenized) THEN "zero"
        ELSE "open"

RECURSIVE ScoreClasses(_, _, _)
ScoreClasses(tokenized, rest, qtokens) ==
    IF rest = << >> THEN << >>
    ELSE << ScoreClass(tokenized, Head(rest), qtokens) >> \o ScoreClasses(tokenized, Tail(rest), qtokens)

\* bm25.get_scores: one score per passage; passages with the same tokens score
\* the same. Where BM25Okapi's formula does not fix the sign of a score, the
\* score is left open.
LexScores(tokenized, qtokens) ==
    LET class == ScoreClasses(tokenized, tokenized, qtokens)
    IN  { sc \in [1..Len(tokenized) -> 0..MaxLexScore] :
            /\ \A i \in 1..Len(tokenized) :
                  /\ class[i] = "zero" => sc[i] = 0
                  /\ class[i] = "positive" => sc[i] > 0
            /\ \A i, j \in 1..Len(tokenized) : tokenized[i] = tokenized[j] => sc[i] = sc[j] }

IndexOrders(n) ==
    { p \in [1..n -> 1..n] : \A i, j \in 1..n : p[i] = p[j] => i = j }

\* np.argsort(scores)[::-1]: indices by descending score; the order among equal
\* scores is the sort's and is left open
ArgsortDescending(sc) ==
    { p \in IndexOrders(Len(sc)) :
        \A i \in 1..(Len(sc) - 1) : sc[p[i]] >= sc[p[i + 1]] }

\* similarities (hundredths) the index may report, by rank
SimilarityProfiles == { << 90, 50, 15, 10 >>, << 90, 15, 10, 5 >>, << 15, 10, 5, 1 >> }

\* what the vector index knows about one query: its ranking of the passages
\* and the similarity at each rank
VectorRankings(docs) ==
    { [order |-> p, sims |-> SubSeq(s, 1, Len(docs))] :
        p \in IndexOrders(Len(docs)), s \in SimilarityProfiles }

NoRanking == [order |-> << >>, sims |-> << >>]

\* the entry the index returns when it holds fewer than k passages: label -1,
\* which passes `idx < len(self.documents)` and reads documents[-1]
MissingScore == [n |-> -1000000, d |-> 100]

\* VectorStore.search(query, k) for k >= 1, given the index's ranking for the query
VectorSearch(docs, ranking, k) ==
    IF Len(docs) = 0 \/ k <= 0 THEN << >>
    ELSE [i \in 1..k |->
            IF i <= Len(docs)
            THEN [doc |-> docs[ranking.order[i]],
                  score |-> [n |-> ranking.sims[i], d |-> 100],
                  idx |-> ranking.order[i]]
            ELSE [doc |-> docs[Len(docs)], score |-> MissingScore, idx |-> Len(docs)]]

\* list.index(doc): the first position holding an equal text
FirstIndex(docs, doc) == CHOOSE i \in 1..Len(docs) : docs[i] = doc /\ \A j \in 1..(i - 1) : docs[j] # doc

\* vector_ranked: each returned passage mapped back to a corpus index by its text
RECURSIVE VectorRanked(_, _)
VectorRanked(docs, vector_results) ==
    IF vector_results = << >> THEN << >>
    ELSE << FirstIndex(docs, Head(vector_results).doc) >> \o VectorRanked(docs, Tail(vector_results))

Min(a, b) == IF a < b THEN a ELSE b

Max(a, b) == IF a > b THEN a ELSE b

\* seq[:n] for n >= 0
Take(seq, n) == SubSeq(seq, 1, Min(n, Len(seq)))

RECURSIVE RankProduct(_)
RankProduct(r) == IF r = 0 THEN 1 ELSE (rrf_k + r) * RankProduct(r - 1)

\* common denominator of 1 / (rrf_k + rank + 1) for the ranks 0 .. MaxCorpus - 1
RankDenominators == RankProduct(MaxCorpus)

\* The contribution without the fusion constant: weight / (rank + 1).
ContributionUndamped(weight, rank) == (weight * RankDenominators) \div (rank + 1)

\* weight / (rrf_k + rank + 1) over the denominator 10 * RankDenominators,
\* weight in tenths and rank 0-based
Contribution(weight, rank) == (weight * RankDenominators) \div (rrf_k + rank + 1)

\* what one truncated ranked list adds to rrf_scores[idx]: one contribution
\* for every position at which idx stands
RECURSIVE ListScore(_, _, _)
ListScore(list, idx, weight) ==
    IF list = << >> THEN 0
    ELSE ListScore(SubSeq(list, 1, Len(list) - 1), idx, weight)
         + (IF list[Len(list)] = idx THEN Contribution(weight, Len(list) - 1) ELSE 0)

\* The fused score that leaves the lexical ranking out.
FusedScoreVectorOnly(lex, vec, k, alpha, idx) ==
    ListScore(Take(vec, k * TopFactor), idx, alpha)

\* rrf_scores[idx] after both loops
FusedScore(lex, vec, k, alpha, idx) ==
    ListScore(Take(lex, k * TopFactor), idx, 10)
    + ListScore(Take(vec, k * TopFactor), idx, alpha)

RECURSIVE Dedup(_)
Dedup(seq) ==
    IF seq = << >> THEN << >>
    ELSE LET init == Dedup(SubSeq(seq, 1, Len(seq) - 1))
         IN  IF \E i \in 1..Len(init) : init[i] = seq[Len(seq)] THEN init
             ELSE Append(init, seq[Len(seq)])

\* The keys of a list of pairs that keeps one pair per contribution.
FusedKeysRepeated(lex, vec, k) == Take(lex, k * TopFactor) \o Take(vec, k * TopFactor)

\* the keys of rrf_scores in insertion order
FusedKeys(lex, vec, k) == Dedup(Take(lex, k * TopFactor) \o Take(vec, k * TopFactor))

\* rrf_scores.items(): the (index, score) pairs in insertion order
RECURSIVE FusedItems(_, _, _, _, _)
FusedItems(keys, lex, vec, k, alpha) ==
    IF keys = << >> THEN << >>
    ELSE << [idx |-> Head(keys), n |-> FusedScore(lex, vec, k, alpha, Head(keys))] >>
         \o FusedItems(Tail(keys), lex, vec, k, alpha)

\* the first item with the largest score
BestPosition(items) ==
    CHOOSE i \in 1..Len(items) :
        \A j \in 1..Len(items) : items[j].n < items[i].n \/ (items[j].n = items[i].n /\ j >= i)

\* sorted(items, key=score, reverse=True): descending score, equal scores in
\* their original order
RECURSIVE SortedDocs(_)
SortedDocs(items) ==
    IF items = << >> THEN << >>
    ELSE LET b == BestPosition(items)
         IN  << items[b] >> \o SortedDocs(SubSeq(items, 1, b - 1) \o SubSeq(items, b + 1, Len(items)))

\* the (document, score) pairs of the first k sorted items
RECURSIVE ResultPairs(_, _)
ResultPairs(docs, sorted) ==
    IF sorted = << >> THEN << >>
    ELSE << [doc |-> docs[Head(sorted).idx],
             score |-> [n |-> Head(sorted).n, d |-> 10 * RankDenominators],
             idx |-> Head(sorted).idx] >>
         \o ResultPairs(docs, Tail(sorted))

\* the pairs search returns on the fusion path
FusedResults(docs, lex, vec, k, alpha) ==
    ResultPairs(docs, Take(SortedDocs(FusedItems(FusedKeys(lex, vec, k), lex, vec, k, alpha)), k))

\* score > 0.2
AboveThreshold(score) == score.n * ThresholdInverse > score.d

RECURSIVE SelectAbove(_)
SelectAbove(results) ==
    IF results = << >> THEN << >>
    ELSE IF AboveThreshold(Head(results).score)
         THEN << Head(results).doc >> \o SelectAbove(Tail(results))
         ELSE SelectAbove(Tail(results))

\* context_parts of retrieve_context for the results of the search and k >= 0
ContextParts(results, k) ==
    IF SelectAbove(results) = << >> /\ results # << >>
    THEN [i \in 1..Min(k, Len(results)) |-> results[i].doc]
    ELSE SelectAbove(results)

(***************************************************************************)
(* RAGPipeline.chat and the /chat endpoint: one turn.                      *)
(*                                                                         *)
(* The conversation store, the retrieval behind retrieve_context, the text *)
(* generator and the evaluator are collaborators: each call either raises  *)
(* or returns one of the values listed below.                              *)
(***************************************************************************)
\* self.min_k
min_k == 1

\* available_context_tokens is never below this
MinAvailableTokens == 256

\* _estimate_tokens: characters per token
CharsPerToken == 4

\* largest RETRIEVE_K of the chat specification
MaxDesiredK == 5

\* values of RETRIEVE_K (desired_k); the variable is read with int() and unchecked
DesiredKs == { -2, 0 } \cup (1..MaxDesiredK)

\* values of MODEL_MAX_TOKENS - RESERVED_RESPONSE_TOKENS
ModelBudgets == { 100, 300 }

\* lengths of the conversation context the store may return
CtxLens == { 0, 40, 900, 1300 }

\* lengths of the text retrieve_context may return
RetrievedLens == { 0, 200, 1024, 5000 }

Query_hi == <<"h", "i">>

Query_it_is == <<"i", "t", " ", "i", "s">>

Query_explain == <<"e", "x", "p", "l", "a", "i", "n", " ", "t", "h", "a", "t", " ", "a", "r", "t", "i", "c", "l", "e">>

Query_thanks_a_lot == <<"t", "h", "a", "n", "k", "s", " ", "a", " ", "l", "o", "t">>

Query_what_is_law == <<"w", "h", "a", "t", " ", "i", "s", " ", "l", "a", "w", "?">>

\* "hi" followed by blanks: 41 characters
Query_hi_padded == <<"h", "i", " ", " ", " ", " ", " ", " ", " ", " ", " ", " ", " ", " ", " ", " ", " ", " ", " ", " ", " ", " ", " ", " ", " ", " ", " ", " ", " ", " ", " ", " ", " ", " ", " ", " ", " ", " ", " ", " ", " ">>

Query_hi_article21 == <<"h", "i", ",", " ", "w", "h", "a", "t", " ", "i", "s", " ", "A", "r", "t", "i", "c", "l", "e", " ", "2", "1", "?">>

\* characters of the long query of the chat specification
LongQueryChars == 600

\* a query whose own estimate is above half of the smallest budget
Query_long == [i \in 1..LongQueryChars |-> "x"]

ChatQueries ==
    { Query_hi, Query_it_is, Query_explain, Query_thanks_a_lot, Query_what_is_law,
      Query_hi_padded, Query_hi_article21, Query_long }

Rewrite_short == <<" ", "i", "s", " ", "a", "r", "t", "i", "c", "l", "e", " ", "2", "1", " ", "v", "a", "l", "i", "d", " ">>

Rewrite_verbose == <<"i", "s", " ", "t", "h", "e", " ", "r", "i", "g", "h", "t", " ", "t", "o", " ", "l", "i", "f", "e", " ", "v", "a", "l", "i", "d">>

\* outcomes of the rewrite's generator call during a turn
ChatGenOutcomes ==
    { [ok |-> FALSE, text |-> << >>],
      [ok |-> TRUE, text |-> Rewrite_short],
      [ok |-> TRUE, text |-> Rewrite_verbose] }

\* RAGPipeline._estimate_tokens, on the length of the text
estimate_tokens(len) == IF len = 0 THEN 0 ELSE Max(1, len \div CharsPerToken)

\* The total without the query's tokens.
TokensTotalWithoutQuery(conversation_len, retrieved_len, query_tokens) ==
    estimate_tokens(conversation_len) + estimate_tokens(retrieved_len)

\* tokens_total of the budget loop
TokensTotal(conversation_len, retrieved_len, query_tokens) ==
    estimate_tokens(conversation_len) + estimate_tokens(retrieved_len) + query_tokens

\* The decrement that skips a value of k.
NextKByTwo(k) == Max(min_k, k - 2)

\* The decrement that leaves k as it is.
NextKStuck(k) == k

\* k = max(self.min_k, k - 1)
NextK(k) == Max(min_k, k - 1)

\* The user text persisted as the query the request came with.
PersistedUserTextOriginal(query, original_query) == original_query

\* the user text handed to add_exchange / insert_one at lines 383-392: `query`,
\* which the rewrite step has replaced
PersistedUserText(query, original_query) == query

\* The exchange whose assistant message repeats the user text.
ExchangeMessagesEchoQuery(user_text, response_text) ==
    << [sender |-> "user", text |-> user_text],
       [sender |-> "assistant", text |-> user_text] >>

\* the user message and the assistant message of a turn
ExchangeMessages(user_text, response_text) ==
    << [sender |-> "user", text |-> user_text],
       [sender |-> "assistant", text |-> << response_text >>] >>

NoDebug == [note |-> "none"]

NoEvaluation == "none"

\* generate_response has not been called in this turn
NotGenerated == [called |-> FALSE, context |-> 0, conversation_context |-> 0]

\* The branch of line 240 taken whenever the query is not informational.
GreetingRouteIgnoresGreeting(greeting, informational) == ~informational

\* chat line 240: the greeting branch is taken for a greeting that is not informational
GreetingRoute(greeting, informational) == greeting /\ ~informational

\* The evaluator called whenever evaluation is requested.
EvaluatorCalledOnRequest(evaluate, evaluator) == evaluate

\* `if evaluate and self.evaluator` of lines 275 and 405
EvaluatorCalled(evaluate, evaluator) == evaluate /\ evaluator

\* The endpoint passing the evaluation on as it is.
EndpointEvaluationKept(evaluation) == evaluation

\* the /chat endpoint: an evaluation that is neither None nor a dict becomes None
EndpointEvaluation(evaluation) == IF evaluation = "dict" THEN "dict" ELSE "null"

\* The evaluator's outcomes: it raises, or returns a dict, None, a non-dict that
\* is truthy, or a non-dict that is falsy (an empty string or list).
EvaluatorOutcomes == { "raises", "dict", "null", "not_dict", "empty_not_dict" }


(***************************************************************************)
(* State.                                                                  *)
(***************************************************************************)
VARIABLES
    h_pc,            \* "idle" | "new" | "classified" | "done"
    h_query,         \* the query
    h_ctx,           \* length of the conversation context
    h_greeting,      \* is_greeting(query)
    h_informational, \* is_informational(query)
    h_gen_called,    \* whether the rewrite reached the text generator
    h_gen,           \* the generator's outcome when it was called
    h_result         \* what rewrite_query_with_context returned

heurVars ==
    << h_pc, h_query, h_ctx, h_greeting, h_informational, h_gen_called, h_gen, h_result >>

VARIABLES
    f_pc,           \* "idle" | "ready" | "done" | "raised"
    f_documents,    \* vector_store.documents, shared with the hybrid retriever
    f_query,        \* the query
    f_k,            \* the k asked for
    f_initialized,  \* RAGPipeline.is_initialized
    f_hybrid,       \* whether RAGPipeline.hybrid_retriever exists
    f_op,           \* "none" | "search" | "retrieve_context"
    f_alpha,        \* the alpha of the fusion search, in tenths
    f_bm25_called,  \* whether bm25.get_scores was called
    f_lex_scores,   \* bm25_scores
    f_lex,          \* bm25_ranked
    f_ranking,      \* the vector index's ranking for the query
    f_vec,          \* vector_ranked
    f_rrf_scores,   \* rrf_scores.items(): (index, score) in insertion order
    f_sorted_docs,  \* sorted_docs
    f_results,      \* the (doc, score) pairs of the search, with the corpus index
    f_context       \* context_parts of retrieve_context

fusionVars ==
    << f_pc, f_documents, f_query, f_k, f_initialized, f_hybrid, f_op, f_alpha,
       f_bm25_called, f_lex_scores, f_lex, f_ranking, f_vec, f_rrf_scores, f_sorted_docs,
       f_results, f_context >>

VARIABLES
    c_pc,                   \* where the turn stands
    c_query,                \* query (rewritten in place by the rewrite step)
    c_original_query,       \* original_query
    c_include_history,      \* include_history
    c_evaluate,             \* evaluate
    c_evaluator,            \* whether self.evaluator exists
    c_model_budget,         \* model_max_tokens - reserved_response_tokens
    c_desired_k,            \* desired_k
    c_k,                    \* k
    c_available,            \* available_context_tokens
    c_query_tokens,         \* query_tokens
    c_conversation_context, \* length of conversation_context
    c_retrieved_context,    \* length of retrieved_context
    c_tokens_total,         \* tokens_total
    c_rounds,               \* retrieve_context calls of the loop
    c_summaries,            \* ensure_summary_limit calls of the loop
    c_decrements,           \* k decrements of the loop
    c_exit,                 \* "none" | "fit" | "fit_after_summary" | "truncated"
    c_rewrite_called,       \* whether the rewrite reached the generator
    c_response_text,        \* "none" | "answer" | "error"
    c_debug,                \* the debug object
    c_evaluation,           \* the evaluation of the turn
    c_messages,             \* messages appended to the session by this turn
    c_persist_failed,       \* whether a persistence call of the turn raised
    c_status,               \* "running" | "returned" | "raised" | "http_200" | "http_500"
    c_request,              \* the query of the request, as it arrived
    c_path,                 \* "none" | "GreetingShortcut" | "RetrievalFlow"
    c_events,               \* the calls of the turn, in order
    c_generated_with,       \* the contexts generate_response was called with
    c_retrieved_k,          \* the k of the last retrieve_context call
    c_summary_failed,       \* whether the last summary compaction raised
    c_evaluator_outcome     \* what the evaluator did, "none" while it was not called

chatVars ==
    << c_pc, c_query, c_original_query, c_include_history, c_evaluate, c_evaluator,
       c_model_budget, c_desired_k, c_k, c_available, c_query_tokens,
       c_conversation_context, c_retrieved_context, c_tokens_total, c_rounds,
       c_summaries, c_decrements, c_exit, c_rewrite_called, c_response_text, c_debug,
       c_evaluation, c_messages, c_persist_failed, c_status, c_request, c_path, c_events,
       c_generated_with, c_retrieved_k, c_summary_failed, c_evaluator_outcome >>

(***************************************************************************)
(* State of the lifetime specification: the pipeline of one process, its   *)
(* initialize calls and its retrievals.                                    *)
(***************************************************************************)
VARIABLES
    p_pc,               \* "idle" | "constructed" | "running"
    p_disk,             \* the saved vector store: [exists, documents]
    p_documents,        \* vector_store.documents
    p_hybrid,           \* whether hybrid_retriever is set
    p_initialized,      \* is_initialized
    p_initialize_calls, \* /initialize requests served
    p_result,           \* "none" | "ok" | "raised": how the last initialize ended
    p_scorer_attempts,  \* constructions of the lexical scorer so far
    p_scorer_failed,    \* whether a construction of the lexical scorer has failed
    p_retrievals,       \* retrieve_context calls so far
    p_mode              \* "none" | "empty" | "fusion" | "vector": the last retrieval

lifeVars ==
    << p_pc, p_disk, p_documents, p_hybrid, p_initialized, p_initialize_calls, p_result,
       p_scorer_attempts, p_scorer_failed, p_retrievals, p_mode >>

(***************************************************************************)
(* State of the session specification: two turns of one session, each with *)
(* its context read, its answer and its append to the session.             *)
(***************************************************************************)
VARIABLES
    s_serialized,   \* whether the caller serializes the turns of the session
    s_history,      \* include_history of each turn
    s_pc,           \* "idle" | "arrived" | "fetched" | "generated" | "done" | "raised"
    s_seen,         \* conversation_context of each turn: the exchanges it read
    s_answer,       \* response_text of each turn and the context it was generated from
    s_log,          \* the exchanges appended to the session, in order
    s_raw           \* the turns whose messages were inserted without an exchange

sessionVars == << s_serialized, s_history, s_pc, s_seen, s_answer, s_log, s_raw >>

(***************************************************************************)
(* State of the heuristics' specification: one query put through the       *)
(* classifiers and the rewrite heuristic.                                  *)
(***************************************************************************)
HeurIdle ==
    /\ h_pc = "idle"
    /\ h_query = << >>
    /\ h_ctx = 0
    /\ h_greeting = FALSE
    /\ h_informational = FALSE
    /\ h_gen_called = FALSE
    /\ h_gen = NoGen
    /\ h_result = << >>

HeurInit ==
    /\ h_pc = "new"
    /\ h_query \in { HeurQueries[i] : i \in 1..Len(HeurQueries) }
    /\ h_ctx \in HeurCtxLens
    /\ h_greeting = FALSE
    /\ h_informational = FALSE
    /\ h_gen_called = FALSE
    /\ h_gen = NoGen
    /\ h_result = << >>

\* the two classifier calls of chat's first line
Classify ==
    /\ h_pc = "new"
    /\ h_greeting' = is_greeting(h_query)
    /\ h_informational' = is_informational(h_query)
    /\ h_pc' = "classified"
    /\ UNCHANGED << h_query, h_ctx, h_gen_called, h_gen, h_result >>
    /\ UNCHANGED << fusionVars, chatVars, lifeVars, sessionVars >>

\* one call of rewrite_query_with_context; the generator is reached only on "attempt"
Rewrite ==
    /\ h_pc = "classified"
    /\ \E gen \in GenOutcomes :
          /\ h_result' = rewrite_query_with_context(h_query, h_ctx, gen)
          /\ h_gen_called' = (RewriteDecision(h_query, h_ctx) = "attempt")
          /\ h_gen' = IF RewriteDecision(h_query, h_ctx) = "attempt" THEN gen ELSE NoGen
    /\ h_pc' = "done"
    /\ UNCHANGED << h_query, h_ctx, h_greeting, h_informational >>
    /\ UNCHANGED << fusionVars, chatVars, lifeVars, sessionVars >>

HeurNext == Classify \/ Rewrite
(***************************************************************************)
(* State of the fusion specification: one retrieval against a loaded       *)
(* corpus, either a direct HybridRetriever.search (as /evaluate/retrieval  *)
(* does) or a retrieve_context call.                                       *)
(***************************************************************************)
FusionOutputsEmpty ==
    /\ f_op = "none"
    /\ f_alpha = 0
    /\ f_bm25_called = FALSE
    /\ f_lex_scores = << >>
    /\ f_lex = << >>
    /\ f_ranking = NoRanking
    /\ f_vec = << >>
    /\ f_rrf_scores = << >>
    /\ f_sorted_docs = << >>
    /\ f_results = << >>
    /\ f_context = << >>

FusionIdle ==
    /\ f_pc = "idle"
    /\ f_documents = << >>
    /\ f_query = << >>
    /\ f_k = 0
    /\ f_initialized = FALSE
    /\ f_hybrid = FALSE
    /\ FusionOutputsEmpty

\* The hybrid retriever is built only over a non-empty corpus and before
\* is_initialized is set.
FusionInit ==
    /\ f_pc = "ready"
    /\ f_documents \in Corpora
    /\ f_query \in SearchQueries
    /\ f_k \in 0..MaxSearchK
    /\ f_initialized \in BOOLEAN
    /\ f_hybrid \in BOOLEAN
    /\ f_hybrid => (f_initialized /\ f_documents # << >>)
    /\ FusionOutputsEmpty

\* The fallback of search with the empty-token test dropped.
HasQueryTokensMutant(query) == TRUE

\* `if not query_tokens` fails: the query has a scorable token
HasQueryTokens(query) == Tokenize(query) # << >>

\* HybridRetriever.search(query, k, alpha); the index rejects k <= 0 (`fails`)
\* or returns nothing for it
HybridSearch(alpha, fails) ==
    IF ~HasQueryTokens(f_query)
    THEN \E ranking \in VectorRankings(f_documents) :
            /\ f_bm25_called' = FALSE
            /\ f_lex_scores' = << >>
            /\ f_lex' = << >>
            /\ f_vec' = << >>
            /\ f_rrf_scores' = << >>
            /\ f_sorted_docs' = << >>
            /\ f_ranking' = ranking
            /\ IF f_k <= 0 /\ fails
               THEN f_pc' = "raised" /\ f_results' = << >>
               ELSE f_pc' = "done" /\ f_results' = VectorSearch(f_documents, ranking, f_k)
    ELSE LET tokenized == TokenizeCorpus(f_documents)
             query_tokens == Tokenize(f_query)
         IN  \E ranking \in VectorRankings(f_documents) :
             \E sc \in LexScores(tokenized, query_tokens) :
             \E lex \in ArgsortDescending(sc) :
                LET vec == VectorRanked(f_documents, VectorSearch(f_documents, ranking, Len(f_documents)))
                IN  /\ f_bm25_called' = TRUE
                    /\ f_lex_scores' = sc
                    /\ f_lex' = lex
                    /\ f_ranking' = ranking
                    /\ f_vec' = vec
                    /\ f_rrf_scores' = FusedItems(FusedKeys(lex, vec, f_k), lex, vec, f_k, alpha)
                    /\ f_sorted_docs' = SortedDocs(f_rrf_scores')
                    /\ f_pc' = "done"
                    /\ f_results' = FusedResults(f_documents, lex, vec, f_k, alpha)

\* a direct call of hybrid_retriever.search
Search ==
    /\ f_pc = "ready"
    /\ f_hybrid
    /\ \E alpha \in Alphas, fails \in BOOLEAN :
          /\ f_alpha' = alpha
          /\ HybridSearch(alpha, fails)
    /\ f_op' = "search"
    /\ f_context' = << >>
    /\ UNCHANGED << f_documents, f_query, f_k, f_initialized, f_hybrid >>
    /\ UNCHANGED << heurVars, chatVars, lifeVars, sessionVars >>

\* RAGPipeline.retrieve_context(query, k)
RetrieveContext ==
    /\ f_pc = "ready"
    /\ f_op' = "retrieve_context"
    /\ IF ~f_initialized
       THEN /\ f_pc' = "done"
            /\ f_context' = << >>
            /\ UNCHANGED << f_alpha, f_bm25_called, f_lex_scores, f_lex, f_ranking, f_vec,
                            f_rrf_scores, f_sorted_docs, f_results >>
       ELSE IF f_hybrid
       THEN /\ f_alpha' = RetrieveAlpha
            /\ \E fails \in BOOLEAN : HybridSearch(RetrieveAlpha, fails)
            /\ f_context' = IF f_pc' = "done" THEN ContextParts(f_results', f_k) ELSE << >>
       ELSE /\ \E ranking \in VectorRankings(f_documents), fails \in BOOLEAN :
                 /\ f_ranking' = ranking
                 /\ IF f_k <= 0 /\ fails /\ f_documents # << >>
                    THEN f_pc' = "raised" /\ f_results' = << >>
                    ELSE f_pc' = "done" /\ f_results' = VectorSearch(f_documents, ranking, f_k)
            /\ f_context' = IF f_pc' = "done" THEN ContextParts(f_results', f_k) ELSE << >>
            /\ UNCHANGED << f_alpha, f_bm25_called, f_lex_scores, f_lex, f_vec,
                            f_rrf_scores, f_sorted_docs >>
    /\ UNCHANGED << f_documents, f_query, f_k, f_initialized, f_hybrid >>
    /\ UNCHANGED << heurVars, chatVars, lifeVars, sessionVars >>

FusionNext == Search \/ RetrieveContext
ChatLocalsFresh ==
    /\ c_original_query = << >>
    /\ c_desired_k = 0
    /\ c_k = 0
    /\ c_available = 0
    /\ c_query_tokens = 0
    /\ c_conversation_context = 0
    /\ c_retrieved_context = 0
    /\ c_tokens_total = 0
    /\ c_rounds = 0
    /\ c_summaries = 0
    /\ c_decrements = 0
    /\ c_exit = "none"
    /\ c_rewrite_called = FALSE
    /\ c_response_text = "none"
    /\ c_debug = NoDebug
    /\ c_evaluation = NoEvaluation
    /\ c_messages = << >>
    /\ c_persist_failed = FALSE
    /\ c_path = "none"
    /\ c_events = << >>
    /\ c_generated_with = NotGenerated
    /\ c_retrieved_k = 0
    /\ c_summary_failed = FALSE
    /\ c_evaluator_outcome = "none"

ChatIdle ==
    /\ c_pc = "idle"
    /\ c_query = << >>
    /\ c_request = << >>
    /\ c_include_history = FALSE
    /\ c_evaluate = FALSE
    /\ c_evaluator = FALSE
    /\ c_model_budget = 0
    /\ c_status = "running"
    /\ ChatLocalsFresh

\* a /chat request reaches rag.chat on an initialized pipeline
ChatInit ==
    /\ c_pc = "start"
    /\ c_query \in ChatQueries
    /\ c_request = c_query
    /\ c_include_history \in BOOLEAN
    /\ c_evaluate \in BOOLEAN
    /\ c_evaluator \in BOOLEAN
    /\ c_model_budget \in ModelBudgets
    /\ c_status = "running"
    /\ ChatLocalsFresh

\* chat line 240 on the greeting side: generate_response with empty contexts
\* (it returns an error string when the generator raises) and the debug object
GreetingShortcut ==
    /\ c_pc = "start"
    /\ GreetingRoute(is_greeting(c_query), is_informational(c_query))
    /\ \E text \in { "answer", "error" } : c_response_text' = text
    /\ c_debug' = [note |-> "retrieval_skipped_greeting",
                   conversation_context_preview |-> 0,
                   retrieved_context_preview |-> 0,
                   conversation |-> 0,
                   retrieved |-> 0,
                   query |-> estimate_tokens(Len(c_query)),
                   total_context_allowed |-> c_model_budget,
                   used_k |-> 0]
    /\ c_pc' = "greeting_persist"
    /\ UNCHANGED << c_query, c_original_query, c_include_history, c_evaluate, c_evaluator,
                    c_model_budget, c_desired_k, c_k, c_available, c_query_tokens,
                    c_conversation_context, c_retrieved_context, c_tokens_total, c_rounds,
                    c_summaries, c_decrements, c_exit, c_rewrite_called, c_evaluation,
                    c_messages, c_persist_failed, c_status >>
    /\ c_path' = "GreetingShortcut"
    /\ c_generated_with' = [called |-> TRUE, context |-> 0, conversation_context |-> 0]
    /\ c_events' = c_events \o << "classify", "generate" >>
    /\ UNCHANGED << c_request, c_retrieved_k, c_summary_failed, c_evaluator_outcome >>
    /\ UNCHANGED << heurVars, fusionVars, lifeVars, sessionVars >>

\* the two insert_one calls of the greeting path, inside try/except: pass
GreetingPersist ==
    /\ c_pc = "greeting_persist"
    /\ \E stored \in 0..2 :
          /\ c_messages' = SubSeq(ExchangeMessages(c_query, c_response_text), 1, stored)
          /\ c_persist_failed' = (stored < 2)
    /\ c_pc' = "greeting_evaluate"
    /\ UNCHANGED << c_query, c_original_query, c_include_history, c_evaluate, c_evaluator,
                    c_model_budget, c_desired_k, c_k, c_available, c_query_tokens,
                    c_conversation_context, c_retrieved_context, c_tokens_total, c_rounds,
                    c_summaries, c_decrements, c_exit, c_rewrite_called, c_response_text,
                    c_debug, c_evaluation, c_status >>
    /\ c_events' = c_events \o << "persist" >>
    /\ UNCHANGED << c_request, c_path, c_generated_with, c_retrieved_k,
                    c_summary_failed, c_evaluator_outcome >>
    /\ UNCHANGED << heurVars, fusionVars, lifeVars, sessionVars >>

\* the optional evaluation of the greeting path and its return
GreetingEvaluate ==
    /\ c_pc = "greeting_evaluate"
    /\ IF EvaluatorCalled(c_evaluate, c_evaluator)
       THEN \E outcome \in EvaluatorOutcomes :
               /\ c_evaluator_outcome' = outcome
               /\ c_evaluation' = IF outcome = "raises" THEN "null" ELSE outcome
       ELSE c_evaluation' = "null" /\ c_evaluator_outcome' = c_evaluator_outcome
    /\ c_pc' = "returned"
    /\ c_status' = "returned"
    /\ UNCHANGED << c_query, c_original_query, c_include_history, c_evaluate, c_evaluator,
                    c_model_budget, c_desired_k, c_k, c_available, c_query_tokens,
                    c_conversation_context, c_retrieved_context, c_tokens_total, c_rounds,
                    c_summaries, c_decrements, c_exit, c_rewrite_called, c_response_text,
                    c_debug, c_messages, c_persist_failed >>
    /\ c_events' = c_events \o (IF EvaluatorCalled(c_evaluate, c_evaluator)
                                 THEN << "evaluate", "return" >> ELSE << "return" >>)
    /\ UNCHANGED << c_request, c_path, c_generated_with, c_retrieved_k, c_summary_failed >>
    /\ UNCHANGED << heurVars, fusionVars, lifeVars, sessionVars >>

\* chat lines 284-290: RETRIEVE_K is read and the conversation context fetched
FetchContext ==
    /\ c_pc = "start"
    /\ ~GreetingRoute(is_greeting(c_query), is_informational(c_query))
    /\ \E dk \in DesiredKs : c_desired_k' = dk /\ c_k' = dk
    /\ \/ /\ c_include_history
          /\ \E len \in CtxLens : c_conversation_context' = len
          /\ c_pc' = "rewrite"
          /\ c_status' = c_status
       \/ /\ c_include_history
          /\ c_conversation_context' = c_conversation_context
          /\ c_pc' = "raised"
          /\ c_status' = "raised"
       \/ /\ ~c_include_history
          /\ c_conversation_context' = 0
          /\ c_pc' = "rewrite"
          /\ c_status' = c_status
    /\ UNCHANGED << c_query, c_original_query, c_include_history, c_evaluate, c_evaluator,
                    c_model_budget, c_available, c_query_tokens, c_retrieved_context,
                    c_tokens_total, c_rounds, c_summaries, c_decrements, c_exit,
                    c_rewrite_called, c_response_text, c_debug, c_evaluation, c_messages,
                    c_persist_failed >>
    /\ c_path' = "RetrievalFlow"
    /\ c_events' = c_events \o << "classify" >> \o (IF c_include_history THEN << "fetch" >> ELSE << >>)
    /\ UNCHANGED << c_request, c_generated_with, c_retrieved_k,
                    c_summary_failed, c_evaluator_outcome >>
    /\ UNCHANGED << heurVars, fusionVars, lifeVars, sessionVars >>

\* chat lines 292-297: the rewrite of a follow-up, then the budget's constants
RewriteQuery ==
    /\ c_pc = "rewrite"
    /\ c_original_query' = c_query
    /\ IF c_include_history /\ c_conversation_context # 0
       THEN IF RewriteDecision(c_query, c_conversation_context) = "attempt"
            THEN /\ c_rewrite_called' = TRUE
                 /\ \E gen \in ChatGenOutcomes :
                       c_query' = rewrite_query_with_context(c_query, c_conversation_context, gen)
            ELSE /\ c_rewrite_called' = FALSE
                 /\ c_query' = rewrite_query_with_context(c_query, c_conversation_context, NoGen)
       ELSE /\ c_rewrite_called' = FALSE
            /\ c_query' = c_query
    /\ c_available' = Max(MinAvailableTokens, c_model_budget)
    /\ c_query_tokens' = estimate_tokens(Len(c_query'))
    /\ c_pc' = "retrieve"
    /\ UNCHANGED << c_include_history, c_evaluate, c_evaluator, c_model_budget,
                    c_desired_k, c_k, c_conversation_context, c_retrieved_context,
                    c_tokens_total, c_rounds, c_summaries, c_decrements, c_exit,
                    c_response_text, c_debug, c_evaluation, c_messages, c_persist_failed,
                    c_status >>
    /\ c_events' = c_events \o (IF c_include_history /\ c_conversation_context # 0 THEN << "rewrite" >> ELSE << >>)
    /\ UNCHANGED << c_request, c_path, c_generated_with, c_retrieved_k,
                    c_summary_failed, c_evaluator_outcome >>
    /\ UNCHANGED << heurVars, fusionVars, lifeVars, sessionVars >>

\* chat lines 301-309 and the test of line 311: one retrieval round
Retrieve ==
    /\ c_pc = "retrieve"
    /\ \/ /\ c_pc' = "raised"
          /\ c_status' = "raised"
          /\ UNCHANGED << c_retrieved_context, c_tokens_total, c_rounds, c_exit >>
       \/ \E len \in RetrievedLens :
             /\ c_retrieved_context' = len
             /\ c_rounds' = c_rounds + 1
             /\ c_tokens_total' = TokensTotal(c_conversation_context, len, c_query_tokens)
             /\ IF c_tokens_total' <= c_available
                THEN c_exit' = "fit" /\ c_pc' = "generate"
                ELSE /\ c_exit' = c_exit
                     /\ c_pc' = IF c_include_history THEN "summarize" ELSE "shrink"
             /\ c_status' = c_status
    /\ UNCHANGED << c_query, c_original_query, c_include_history, c_evaluate, c_evaluator,
                    c_model_budget, c_desired_k, c_k, c_available, c_query_tokens,
                    c_conversation_context, c_summaries, c_decrements, c_rewrite_called,
                    c_response_text, c_debug, c_evaluation, c_messages, c_persist_failed >>
    /\ c_retrieved_k' = c_k
    /\ c_events' = c_events \o << "retrieve" >>
    /\ UNCHANGED << c_request, c_path, c_generated_with,
                    c_summary_failed, c_evaluator_outcome >>
    /\ UNCHANGED << heurVars, fusionVars, lifeVars, sessionVars >>

\* The failed compaction that loses the conversation context.
SummaryFailureClearsContext(conversation_len) == 0

\* `except Exception: pass` of lines 322-323: conversation_context keeps the value
\* it had before the attempt
SummaryFailureContext(conversation_len) == conversation_len

\* chat lines 312-323: ensure_summary_limit, the context refresh and the
\* recomputed total; either call may raise, which is caught
Summarize ==
    /\ c_pc = "summarize"
    /\ c_summaries' = c_summaries + 1
    /\ \/ /\ c_conversation_context' = SummaryFailureContext(c_conversation_context)
          /\ c_events' = c_events \o << "summarize" >>
          /\ c_summary_failed' = TRUE
          /\ c_pc' = "shrink"
          /\ UNCHANGED << c_tokens_total, c_exit >>
       \/ \E len \in CtxLens :
             /\ c_events' = c_events \o << "summarize" >>
             /\ c_summary_failed' = FALSE
             /\ c_conversation_context' = len
             /\ c_tokens_total' = TokensTotal(len, c_retrieved_context, c_query_tokens)
             /\ IF c_tokens_total' <= c_available
                THEN c_exit' = "fit_after_summary" /\ c_pc' = "generate"
                ELSE c_exit' = c_exit /\ c_pc' = "shrink"
    /\ UNCHANGED << c_query, c_original_query, c_include_history, c_evaluate, c_evaluator,
                    c_model_budget, c_desired_k, c_k, c_available, c_query_tokens,
                    c_retrieved_context, c_rounds, c_decrements, c_rewrite_called,
                    c_response_text, c_debug, c_evaluation, c_messages, c_persist_failed,
                    c_status >>
    /\ UNCHANGED << c_request, c_path, c_generated_with, c_retrieved_k, c_evaluator_outcome >>
    /\ UNCHANGED << heurVars, fusionVars, lifeVars, sessionVars >>

\* chat lines 325-327: retry with a smaller k
Decrement ==
    /\ c_pc = "shrink"
    /\ c_k > min_k
    /\ c_k' = NextK(c_k)
    /\ c_decrements' = c_decrements + 1
    /\ c_pc' = "retrieve"
    /\ UNCHANGED << c_query, c_original_query, c_include_history, c_evaluate, c_evaluator,
                    c_model_budget, c_desired_k, c_available, c_query_tokens,
                    c_conversation_context, c_retrieved_context, c_tokens_total, c_rounds,
                    c_summaries, c_exit, c_rewrite_called, c_response_text, c_debug,
                    c_evaluation, c_messages, c_persist_failed, c_status >>
    /\ c_events' = c_events \o << "decrement" >>
    /\ UNCHANGED << c_request, c_path, c_generated_with, c_retrieved_k,
                    c_summary_failed, c_evaluator_outcome >>
    /\ UNCHANGED << heurVars, fusionVars, lifeVars, sessionVars >>

\* conversation_context[-keep:] and retrieved_context[:limit], on lengths
KeepTail(len, keep) == IF keep > 0 THEN Min(len, keep) ELSE 0

\* The cut that keeps the whole retrieved context.
KeepHeadWhole(len, limit) == len

KeepHead(len, limit) == IF limit < len THEN limit ELSE len

\* allowed_tokens_for_retrieved
AllowedForRetrieved(available, conversation_len, query_tokens) ==
    Max(0, available - estimate_tokens(conversation_len) - query_tokens)

\* chat lines 329-338: the terminal hard truncation
Truncate ==
    /\ c_pc = "shrink"
    /\ ~(c_k > min_k)
    /\ LET allowed == AllowedForRetrieved(c_available, c_conversation_context, c_query_tokens)
           conv_chars_keep == Max(0, (c_available \div 2) * CharsPerToken)
           conversation == IF allowed <= 0
                           THEN KeepTail(c_conversation_context, conv_chars_keep)
                           ELSE c_conversation_context
           allowed_after == IF allowed <= 0
                            THEN AllowedForRetrieved(c_available, conversation, c_query_tokens)
                            ELSE allowed
           char_limit == allowed_after * CharsPerToken
       IN  /\ c_conversation_context' = conversation
           /\ c_retrieved_context' = KeepHead(c_retrieved_context, char_limit)
    /\ c_exit' = "truncated"
    /\ c_pc' = "generate"
    /\ UNCHANGED << c_query, c_original_query, c_include_history, c_evaluate, c_evaluator,
                    c_model_budget, c_desired_k, c_k, c_available, c_query_tokens,
                    c_tokens_total, c_rounds, c_summaries, c_decrements, c_rewrite_called,
                    c_response_text, c_debug, c_evaluation, c_messages, c_persist_failed,
                    c_status >>
    /\ c_events' = c_events \o << "truncate" >>
    /\ UNCHANGED << c_request, c_path, c_generated_with, c_retrieved_k,
                    c_summary_failed, c_evaluator_outcome >>
    /\ UNCHANGED << heurVars, fusionVars, lifeVars, sessionVars >>

\* chat lines 357-380: generate_response (an error string when the generator
\* raises) and the debug object
Generate ==
    /\ c_pc = "generate"
    /\ \E text \in { "answer", "error" } : c_response_text' = text
    /\ c_debug' = [note |-> "retrieval",
                   conversation_context_preview |-> c_conversation_context,
                   retrieved_context_preview |-> c_retrieved_context,
                   conversation |-> estimate_tokens(c_conversation_context),
                   retrieved |-> estimate_tokens(c_retrieved_context),
                   query |-> c_query_tokens,
                   total_context_allowed |-> c_available,
                   used_k |-> c_k,
                   query_rewritten |-> (c_query # c_original_query),
                   original_query |-> IF c_original_query # c_query
                                      THEN [some |-> TRUE, text |-> c_original_query]
                                      ELSE [some |-> FALSE, text |-> << >>],
                   rewritten_query |-> IF c_original_query # c_query
                                       THEN [some |-> TRUE, text |-> c_query]
                                       ELSE [some |-> FALSE, text |-> << >>]]
    /\ c_pc' = "persist"
    /\ UNCHANGED << c_query, c_original_query, c_include_history, c_evaluate, c_evaluator,
                    c_model_budget, c_desired_k, c_k, c_available, c_query_tokens,
                    c_conversation_context, c_retrieved_context, c_tokens_total, c_rounds,
                    c_summaries, c_decrements, c_exit, c_rewrite_called, c_evaluation,
                    c_messages, c_persist_failed, c_status >>
    /\ c_generated_with' = [called |-> TRUE, context |-> c_retrieved_context, conversation_context |-> c_conversation_context]
    /\ c_events' = c_events \o << "generate" >>
    /\ UNCHANGED << c_request, c_path, c_retrieved_k, c_summary_failed, c_evaluator_outcome >>
    /\ UNCHANGED << heurVars, fusionVars, lifeVars, sessionVars >>

\* chat lines 382-402: add_exchange, or the two insert_one calls; nothing
\* catches what they raise
Persist ==
    /\ c_pc = "persist"
    /\ \E stored \in 0..2 :
          /\ c_include_history => stored # 1
          /\ c_messages' = SubSeq(ExchangeMessages(PersistedUserText(c_query, c_original_query),
                                                    c_response_text), 1, stored)
          /\ c_persist_failed' = (stored < 2)
          /\ c_pc' = IF stored < 2 THEN "raised" ELSE "evaluate"
          /\ c_status' = IF stored < 2 THEN "raised" ELSE c_status
    /\ UNCHANGED << c_query, c_original_query, c_include_history, c_evaluate, c_evaluator,
                    c_model_budget, c_desired_k, c_k, c_available, c_query_tokens,
                    c_conversation_context, c_retrieved_context, c_tokens_total, c_rounds,
                    c_summaries, c_decrements, c_exit, c_rewrite_called, c_response_text,
                    c_debug, c_evaluation >>
    /\ c_events' = c_events \o << "persist" >>
    /\ UNCHANGED << c_request, c_path, c_generated_with, c_retrieved_k,
                    c_summary_failed, c_evaluator_outcome >>
    /\ UNCHANGED << heurVars, fusionVars, lifeVars, sessionVars >>

\* chat lines 404-419: the optional evaluation and the return
Evaluate ==
    /\ c_pc = "evaluate"
    /\ IF EvaluatorCalled(c_evaluate, c_evaluator)
       THEN \E outcome \in EvaluatorOutcomes :
               /\ c_evaluator_outcome' = outcome
               /\ c_evaluation' = IF outcome \in { "dict", "empty_not_dict" } THEN outcome ELSE "null"
       ELSE c_evaluation' = "null" /\ c_evaluator_outcome' = c_evaluator_outcome
    /\ c_pc' = "returned"
    /\ c_status' = "returned"
    /\ UNCHANGED << c_query, c_original_query, c_include_history, c_evaluate, c_evaluator,
                    c_model_budget, c_desired_k, c_k, c_available, c_query_tokens,
                    c_conversation_context, c_retrieved_context, c_tokens_total, c_rounds,
                    c_summaries, c_decrements, c_exit, c_rewrite_called, c_response_text,
                    c_debug, c_messages, c_persist_failed >>
    /\ c_events' = c_events \o (IF EvaluatorCalled(c_evaluate, c_evaluator)
                                 THEN << "evaluate", "return" >> ELSE << "return" >>)
    /\ UNCHANGED << c_request, c_path, c_generated_with, c_retrieved_k, c_summary_failed >>
    /\ UNCHANGED << heurVars, fusionVars, lifeVars, sessionVars >>

\* the /chat endpoint after rag.chat returned: a non-dict evaluation is dropped
EndpointReturns ==
    /\ c_pc = "returned"
    /\ c_evaluation' = EndpointEvaluation(c_evaluation)
    /\ c_pc' = "done"
    /\ c_status' = "http_200"
    /\ UNCHANGED << c_query, c_original_query, c_include_history, c_evaluate, c_evaluator,
                    c_model_budget, c_desired_k, c_k, c_available, c_query_tokens,
                    c_conversation_context, c_retrieved_context, c_tokens_total, c_rounds,
                    c_summaries, c_decrements, c_exit, c_rewrite_called, c_response_text,
                    c_debug, c_messages, c_persist_failed >>
    /\ UNCHANGED << c_request, c_path, c_events, c_generated_with, c_retrieved_k,
                    c_summary_failed, c_evaluator_outcome >>
    /\ UNCHANGED << heurVars, fusionVars, lifeVars, sessionVars >>

\* the /chat endpoint when rag.chat raised: HTTP 500
EndpointFails ==
    /\ c_pc = "raised"
    /\ c_pc' = "done"
    /\ c_status' = "http_500"
    /\ UNCHANGED << c_query, c_original_query, c_include_history, c_evaluate, c_evaluator,
                    c_model_budget, c_desired_k, c_k, c_available, c_query_tokens,
                    c_conversation_context, c_retrieved_context, c_tokens_total, c_rounds,
                    c_summaries, c_decrements, c_exit, c_rewrite_called, c_response_text,
                    c_debug, c_evaluation, c_messages, c_persist_failed >>
    /\ UNCHANGED << c_request, c_path, c_events, c_generated_with, c_retrieved_k,
                    c_summary_failed, c_evaluator_outcome >>
    /\ UNCHANGED << heurVars, fusionVars, lifeVars, sessionVars >>

ChatNext ==
    \/ GreetingShortcut
    \/ GreetingPersist
    \/ GreetingEvaluate
    \/ FetchContext
    \/ RewriteQuery
    \/ Retrieve
    \/ Summarize
    \/ Decrement
    \/ Truncate
    \/ Generate
    \/ Persist
    \/ Evaluate
    \/ EndpointReturns
    \/ EndpointFails

(***************************************************************************)
(* The lifetime of the pipeline: RAGPipeline.initialize, called once at    *)
(* startup and again by every /initialize request, and retrieve_context.   *)
(* Passages are named; the document processor, the saved store and the     *)
(* constructor of the lexical scorer are collaborators that may fail.      *)
(***************************************************************************)
\* /initialize requests of the lifetime specification
MaxInitializeCalls == 2

\* retrieve_context calls of the lifetime specification
MaxRetrievals == 2

\* what process_documents returns: nothing, or the passages of the data folder
ProcessedPassages == << "p1", "p2" >>

NoStore == [exists |-> FALSE, documents |-> << >>]

\* the saved store found at startup
SavedStores == { NoStore, [exists |-> TRUE, documents |-> ProcessedPassages] }

\* vector_store.load(): skipped under force_rebuild, else the files are absent,
\* are read, or reading them raises (load then returns False)
LoadOutcomes(force_rebuild) ==
    IF force_rebuild THEN { "skipped" }
    ELSE IF p_disk.exists THEN { "loaded", "failed" } ELSE { "absent" }

\* retrieve_context's choice of search
RetrievalMode(initialized, hybrid) ==
    IF ~initialized THEN "empty" ELSE IF hybrid THEN "fusion" ELSE "vector"

LifeIdle ==
    /\ p_pc = "idle"
    /\ p_disk = NoStore
    /\ p_documents = << >>
    /\ p_hybrid = FALSE
    /\ p_initialized = FALSE
    /\ p_initialize_calls = 0
    /\ p_result = "none"
    /\ p_scorer_attempts = 0
    /\ p_scorer_failed = FALSE
    /\ p_retrievals = 0
    /\ p_mode = "none"

\* RAGPipeline.__init__
LifeInit ==
    /\ p_pc = "constructed"
    /\ p_disk \in SavedStores
    /\ p_documents = << >>
    /\ p_hybrid = FALSE
    /\ p_initialized = FALSE
    /\ p_initialize_calls = 0
    /\ p_result = "none"
    /\ p_scorer_attempts = 0
    /\ p_scorer_failed = FALSE
    /\ p_retrievals = 0
    /\ p_mode = "none"

\* initialize lines 46-55: the hybrid retriever is constructed over a non-empty
\* store, a failing construction leaves None, and is_initialized is set
BuildRetriever(documents) ==
    /\ p_documents' = documents
    /\ IF documents # << >>
       THEN \E built \in BOOLEAN :
               /\ p_hybrid' = built
               /\ p_scorer_attempts' = p_scorer_attempts + 1
               /\ p_scorer_failed' = (p_scorer_failed \/ ~built)
       ELSE UNCHANGED << p_hybrid, p_scorer_attempts, p_scorer_failed >>
    /\ p_initialized' = TRUE
    /\ p_result' = "ok"

\* initialize raises before line 46: nothing but the store's documents changed
InitializeRaises(documents) ==
    /\ p_documents' = documents
    /\ p_result' = "raised"
    /\ UNCHANGED << p_disk, p_hybrid, p_scorer_attempts, p_scorer_failed, p_initialized >>

\* RAGPipeline.initialize(data_folder, force_rebuild)
initialize(force_rebuild) ==
    \E load \in LoadOutcomes(force_rebuild) :
       IF load = "loaded"
       THEN BuildRetriever(p_disk.documents) /\ UNCHANGED p_disk
       ELSE \E chunks \in { << >>, ProcessedPassages } :
               IF chunks = << >>
               THEN InitializeRaises(p_documents)
               ELSE \E saved \in BOOLEAN :
                       IF saved
                       THEN /\ p_disk' = [exists |-> TRUE, documents |-> p_documents \o chunks]
                            /\ BuildRetriever(p_documents \o chunks)
                       ELSE InitializeRaises(p_documents \o chunks)

\* startup_event: initialize without force_rebuild; what it raises is logged
Startup ==
    /\ p_pc = "constructed"
    /\ initialize(FALSE)
    /\ p_pc' = "running"
    /\ UNCHANGED << p_initialize_calls, p_retrievals, p_mode >>
    /\ UNCHANGED << heurVars, fusionVars, chatVars, sessionVars >>

\* the /initialize endpoint
InitializeEndpoint ==
    /\ p_pc = "running"
    /\ p_initialize_calls < MaxInitializeCalls
    /\ \E force_rebuild \in BOOLEAN : initialize(force_rebuild)
    /\ p_initialize_calls' = p_initialize_calls + 1
    /\ UNCHANGED << p_pc, p_retrievals, p_mode >>
    /\ UNCHANGED << heurVars, fusionVars, chatVars, sessionVars >>

\* a retrieve_context call: which search it uses
RetrieveInLifetime ==
    /\ p_pc = "running"
    /\ p_retrievals < MaxRetrievals
    /\ p_mode' = RetrievalMode(p_initialized, p_hybrid)
    /\ p_retrievals' = p_retrievals + 1
    /\ UNCHANGED << p_pc, p_disk, p_documents, p_hybrid, p_initialized, p_initialize_calls,
                    p_result, p_scorer_attempts, p_scorer_failed >>
    /\ UNCHANGED << heurVars, fusionVars, chatVars, sessionVars >>

LifeNext == Startup \/ InitializeEndpoint \/ RetrieveInLifetime

(***************************************************************************)
(* Two turns of one session. The conversation store keeps the exchanges of *)
(* the session in the order they were appended and returns them as the     *)
(* conversation context.                                                   *)
(***************************************************************************)
Turns == { "t1", "t2" }

\* ConversationStore.getContext: the exchanges appended so far
StoreContext(log) == [i \in 1..Len(log) |-> log[i].turn]

\* ConversationStore.addExchange: the exchange is appended to the session
StoreAppend(log, exchange) == Append(log, exchange)

\* The context fetch that never reads the session.
FetchedContextEmpty(include_history, stored) == << >>

\* chat lines 287-290: the context is read only with history enabled
FetchedContext(include_history, stored) == IF include_history THEN stored ELSE << >>

SessionIdle ==
    /\ s_serialized = FALSE
    /\ s_history = [t \in Turns |-> FALSE]
    /\ s_pc = [t \in Turns |-> "idle"]
    /\ s_seen = [t \in Turns |-> << >>]
    /\ s_answer = [t \in Turns |-> [text |-> "none", from |-> << >>]]
    /\ s_log = << >>
    /\ s_raw = << >>

SessionInit ==
    /\ s_serialized \in BOOLEAN
    /\ s_history \in [Turns -> BOOLEAN]
    /\ s_pc = [t \in Turns |-> "idle"]
    /\ s_seen = [t \in Turns |-> << >>]
    /\ s_answer = [t \in Turns |-> [text |-> "none", from |-> << >>]]
    /\ s_log = << >>
    /\ s_raw = << >>

\* a /chat request of the session reaches rag.chat; a serializing caller sends
\* it only when no other turn of the session is in flight
TurnArrives(t) ==
    /\ s_pc[t] = "idle"
    /\ s_serialized => \A u \in Turns \ { t } : s_pc[u] \notin { "arrived", "fetched", "generated" }
    /\ s_pc' = [s_pc EXCEPT ![t] = "arrived"]
    /\ UNCHANGED << s_serialized, s_history, s_seen, s_answer, s_log, s_raw >>
    /\ UNCHANGED << heurVars, fusionVars, chatVars, lifeVars >>

\* chat lines 287-290: the conversation context is read, or the read raises
TurnFetchContext(t) ==
    /\ s_pc[t] = "arrived"
    /\ \/ /\ s_seen' = [s_seen EXCEPT ![t] = FetchedContext(s_history[t], StoreContext(s_log))]
          /\ s_pc' = [s_pc EXCEPT ![t] = "fetched"]
       \/ /\ s_history[t]
          /\ s_seen' = s_seen
          /\ s_pc' = [s_pc EXCEPT ![t] = "raised"]
    /\ UNCHANGED << s_serialized, s_history, s_answer, s_log, s_raw >>
    /\ UNCHANGED << heurVars, fusionVars, chatVars, lifeVars >>

\* chat line 357: the answer is generated from the context the turn read
TurnGenerate(t) ==
    /\ s_pc[t] = "fetched"
    /\ \E text \in { "answer", "error" } :
          s_answer' = [s_answer EXCEPT ![t] = [text |-> text, from |-> s_seen[t]]]
    /\ s_pc' = [s_pc EXCEPT ![t] = "generated"]
    /\ UNCHANGED << s_serialized, s_history, s_seen, s_log, s_raw >>
    /\ UNCHANGED << heurVars, fusionVars, chatVars, lifeVars >>

\* chat lines 382-402: add_exchange with history, the raw inserts without;
\* either may raise
TurnPersist(t) ==
    /\ s_pc[t] = "generated"
    /\ \/ /\ s_history[t]
          /\ s_log' = StoreAppend(s_log, [turn |-> t, seen |-> s_seen[t],
                                          answer |-> s_answer[t]])
          /\ s_raw' = s_raw
          /\ s_pc' = [s_pc EXCEPT ![t] = "done"]
       \/ /\ ~s_history[t]
          /\ s_raw' = Append(s_raw, t)
          /\ s_log' = s_log
          /\ s_pc' = [s_pc EXCEPT ![t] = "done"]
       \/ /\ UNCHANGED << s_log, s_raw >>
          /\ s_pc' = [s_pc EXCEPT ![t] = "raised"]
    /\ UNCHANGED << s_serialized, s_history, s_seen, s_answer >>
    /\ UNCHANGED << heurVars, fusionVars, chatVars, lifeVars >>

SessionNext ==
    \E t \in Turns :
       \/ TurnArrives(t)
       \/ TurnFetchContext(t)
       \/ TurnGenerate(t)
       \/ TurnPersist(t)

vars == << heurVars, fusionVars, chatVars, lifeVars, sessionVars >>

(***************************************************************************)
(* The specifications: one chat turn (Spec), one retrieval against a       *)
(* loaded corpus (SpecFusion), one query through the classifiers and the   *)
(* rewrite heuristic (SpecHeur), the lifetime of one pipeline (SpecLife),  *)
(* two turns of one session (SpecSession).                                 *)
(***************************************************************************)
Init == ChatInit /\ HeurIdle /\ FusionIdle /\ LifeIdle /\ SessionIdle

Next == ChatNext

Spec == Init /\ [][Next]_vars

InitFusion == FusionInit /\ HeurIdle /\ ChatIdle /\ LifeIdle /\ SessionIdle

NextFusion == FusionNext

SpecFusion == InitFusion /\ [][NextFusion]_vars

InitHeur == HeurInit /\ FusionIdle /\ ChatIdle /\ LifeIdle /\ SessionIdle

NextHeur == HeurNext

SpecHeur == InitHeur /\ [][NextHeur]_vars

InitLife == LifeInit /\ HeurIdle /\ FusionIdle /\ ChatIdle /\ SessionIdle

NextLife == LifeNext

SpecLife == InitLife /\ [][NextLife]_vars

InitSession == SessionInit /\ HeurIdle /\ FusionIdle /\ ChatIdle /\ LifeIdle

NextSession == SessionNext

SpecSession == InitSession /\ [][NextSession]_vars

(***************************************************************************)
(* Claims about the budget loop and the turn (checked under Spec).         *)
(***************************************************************************)

\* C1, as stated: the budget loop ends after at most (desiredK - minK + 1) + 2
\* retrieval rounds, for any desiredK and minK.
C1_RoundsWithinStatedBound ==
    c_rounds <= (c_desired_k - min_k + 1) + 2

\* C1, amended: the budget loop ends after at most max(desiredK - minK, 0) + 1
\* retrieval rounds whatever the collaborators do, which is within
\* (desiredK - minK + 1) + 2 whenever desiredK >= minK - 2.
C1_RoundsBounded ==
    /\ c_rounds <= Max(c_desired_k - min_k, 0) + 1
    /\ c_desired_k >= min_k - 2 => c_rounds <= (c_desired_k - min_k + 1) + 2

\* C1 witness: the loop has ended after the largest number of rounds, through
\* the terminal truncation.
C1_LoopEndedAfterAllRounds ==
    /\ c_pc = "generate"
    /\ c_exit = "truncated"
    /\ c_desired_k = MaxDesiredK
    /\ c_rounds = c_desired_k - min_k + 1

\* C2: when the loop ends through a branch other than the terminal truncation,
\* the estimates of the final conversation context, the final retrieved
\* context and the query sum to at most availableTokens, and the debug
\* object reports exactly these estimates.
C2_FitExitWithinBudget ==
    c_exit \in { "fit", "fit_after_summary" } =>
        /\ estimate_tokens(c_conversation_context) + estimate_tokens(c_retrieved_context)
              + estimate_tokens(Len(c_query)) <= c_available
        /\ c_debug.note = "retrieval" =>
              /\ c_debug.conversation = estimate_tokens(c_conversation_context)
              /\ c_debug.retrieved = estimate_tokens(c_retrieved_context)
              /\ c_debug.query = estimate_tokens(Len(c_query))
              /\ c_debug.conversation + c_debug.retrieved + c_debug.query
                    <= c_debug.total_context_allowed

\* C2 witness: a turn that left the loop after a summary compaction in a later
\* round, with a non-empty context of each kind, and built its debug object.
C2_FitAfterSummaryReported ==
    /\ c_exit = "fit_after_summary"
    /\ c_rounds >= 2
    /\ c_conversation_context > 0
    /\ c_retrieved_context > 0
    /\ c_debug.note = "retrieval"

\* C5: a failure of the turn's persistence is swallowed and chat still returns
\* the response (on both paths, with history enabled or disabled).
C5_PersistenceFailureSwallowed ==
    c_persist_failed => c_status \notin { "raised", "http_500" }

\* C7: during one run of the budget loop ensure_summary_limit is called at
\* most once.
C7_SummaryRequestedAtMostOnce ==
    c_summaries <= 1

(***************************************************************************)
(* Claims about the fusion search (checked under SpecFusion).              *)
(***************************************************************************)

\* C3: a passage at rank 0 of both the lexical and the vector ranking is the
\* first fused result, for every alpha > 0 and k >= 1.
C3_RankDominance ==
    (/\ f_pc = "done"
     /\ f_bm25_called
     /\ f_alpha > 0
     /\ f_k >= 1
     /\ f_lex[1] = f_vec[1])
    => f_results[1].idx = f_lex[1]

\* C4: for the two-passage corpus, the query "life" and alpha = 0, the first
\* result of the fusion search is the first passage.
C4_ScenarioTopIsFirstPassage ==
    (/\ f_pc = "done"
     /\ f_op = "search"
     /\ f_documents = CorpusScenario
     /\ f_query = Query_life
     /\ f_alpha = 0
     /\ f_k >= 1)
    => f_results[1].doc = Doc_article21

\* C8: for a query without scorable tokens the fusion search does not call the
\* lexical scorer and returns exactly what the vector search returns for
\* (query, k).
C8_NoTokensIsVectorOnly ==
    (/\ f_pc \in { "done", "raised" }
     /\ f_op = "search" \/ (f_op = "retrieve_context" /\ f_hybrid)
     /\ Tokenize(f_query) = << >>)
    => /\ ~f_bm25_called
       /\ f_pc = "done" => f_results = VectorSearch(f_documents, f_ranking, f_k)

\* C8 witness: a search for a non-empty query without scorable tokens that
\* returned two passages.
C8_TokenlessSearchReturned ==
    /\ f_pc = "done"
    /\ f_op = "search"
    /\ f_query # << >>
    /\ Tokenize(f_query) = << >>
    /\ Len(f_results) = 2

\* a search that took the fusion path and returned
FusedSearchDone == f_pc = "done" /\ f_bm25_called

\* C21: for a query with a scorable token, any k >= 0 and any alpha, the
\* fusion search returns at most k pairs, never more pairs than the corpus has
\* passages, and never the same corpus index twice.
C21_FusedResultsBounded ==
    (FusedSearchDone /\ f_k >= 0)
    => /\ Len(f_results) <= f_k
       /\ Len(f_results) <= Len(f_documents)
       /\ \A i, j \in 1..Len(f_results) :
             f_results[i].idx = f_results[j].idx => i = j

\* C21 witness: a fusion search asked for more passages than the corpus has
\* and returned the whole corpus.
C21_WholeCorpusReturned ==
    /\ FusedSearchDone
    /\ f_documents # << >>
    /\ f_k > Len(f_documents)
    /\ Len(f_results) = Len(f_documents)

\* what a truncated ranked list adds to an index it counts at most once:
\* nothing when the index is absent, else the contribution of one position
SingleContributions(list, idx, weight) ==
    IF \E p \in 1..Len(list) : list[p] = idx
    THEN { Contribution(weight, p - 1) : p \in { q \in 1..Len(list) : list[q] = idx } }
    ELSE { 0 }

\* C22: the fused score of every returned index is the sum of at most one
\* lexical contribution 1/(61 + r_lex) and at most one vector contribution
\* alpha/(61 + r_vec), r the 0-based position in the list truncated to 3k;
\* no index receives two contributions from the same source.
C22_OneContributionPerSource ==
    (FusedSearchDone /\ f_k >= 0)
    => \A i \in 1..Len(f_results) :
          \E l \in SingleContributions(Take(f_lex, f_k * TopFactor), f_results[i].idx, 10),
             v \in SingleContributions(Take(f_vec, f_k * TopFactor), f_results[i].idx, f_alpha) :
             f_results[i].score.n = l + v

\* every passage stands once in the corpus
PassagesOnce(documents) ==
    \A i, j \in 1..Len(documents) : documents[i] = documents[j] => i = j

\* the passages of all returned pairs, in order
AllDocs(results) == [i \in 1..Len(results) |-> results[i].doc]

\* a retrieve_context call that returned, over a corpus without repeats
RetrievedOverDistinctCorpus ==
    /\ f_pc = "done"
    /\ f_op = "retrieve_context"
    /\ f_initialized
    /\ PassagesOnce(f_documents)

\* C25: when retrieve_context uses the fusion retriever (alpha = 0.9), the
\* query has a scorable token and no passage repeats, every fused score is at
\* most 1.9/61, none exceeds the 0.2 threshold, and the context is made of all
\* returned passages; the threshold leaves a passage out only on the
\* vector-only paths.
C25_FusionScoresBelowThreshold ==
    /\ (RetrievedOverDistinctCorpus /\ f_bm25_called)
       => /\ f_alpha = RetrieveAlpha
          /\ \A i \in 1..Len(f_results) :
                /\ ~AboveThreshold(f_results[i].score)
                /\ f_results[i].score.d = 10 * RankDenominators
                /\ f_results[i].score.n * (rrf_k + 1) <= (10 + RetrieveAlpha) * RankDenominators
          /\ f_context = AllDocs(f_results)
    /\ (RetrievedOverDistinctCorpus /\ f_context # AllDocs(f_results))
       => ~f_bm25_called

\* C25 witness: a fusion retrieval of two passages, both below the threshold
\* and both in the context.
C25_FusionContextIsWholeResult ==
    /\ RetrievedOverDistinctCorpus
    /\ f_bm25_called
    /\ Len(f_results) = 2
    /\ f_context = AllDocs(f_results)
    /\ f_results[1].score.n > f_results[2].score.n

\* the truncated ranked lists of the search
LexTop == Take(f_lex, f_k * TopFactor)

VecTop == Take(f_vec, f_k * TopFactor)

\* rrf_scores[idx], as a numerator over 10 * RankDenominators
RrfScore(idx) ==
    LET i == CHOOSE j \in 1..Len(f_rrf_scores) : f_rrf_scores[j].idx = idx
    IN  f_rrf_scores[i].n

\* the position of idx in sorted_docs
SortedPosition(idx) == CHOOSE j \in 1..Len(f_sorted_docs) : f_sorted_docs[j].idx = idx

\* every passage of the lexical top-3k has at least its lexical contribution
\* 1/(61 + rank), whatever its lexical score
LexicalContributionReceived ==
    (FusedSearchDone /\ f_k >= 0)
    => \A r \in 1..Len(LexTop) :
          RrfScore(LexTop[r]) * (rrf_k + r) >= 10 * RankDenominators

\* the tops of the two rankings differ and neither is in the other's top-3k
TopsDisjoint ==
    /\ FusedSearchDone
    /\ f_k >= 1
    /\ f_alpha < 10
    /\ f_lex[1] # f_vec[1]
    /\ ~InList(f_lex[1], VecTop)
    /\ ~InList(f_vec[1], LexTop)

ListedGreeting(query) ==
    \/ InList(Lower(Strip(query)), single_word_greetings)
    \/ InList(Lower(Strip(query)), greeting_patterns)

\* C6: a query is classified Greeting by is_greeting exactly when its trimmed,
\* lowercased form is one of the seven single words or one of the five
\* polite phrases.
C6_GreetingIffListed ==
    h_pc \in { "classified", "done" } => (h_greeting <=> ListedGreeting(h_query))

\* C9: the generator is called for a rewrite exactly when the conversation
\* context is non-empty, the query has at most 15 words, does not start with
\* an informational starter, contains no domain term and matches a follow-up
\* pattern; "explain that article" is never sent, "it is" with a context is.
C9_RewriteAttemptedIff ==
    h_pc = "done" =>
        /\ h_gen_called <=>
              (/\ h_ctx # 0
               /\ WordCount(h_query) <= 15
               /\ ~StartsInformational(h_query)
               /\ ~HasLegalTerm(h_query)
               /\ has_follow_up(h_query))
        /\ h_query = Query_explain => ~h_gen_called
        /\ (h_query = Query_it_is /\ h_ctx # 0) => h_gen_called

\* C9 witness: "it is" after a non-empty conversation context reached the
\* generator.
C9_ItIsSentForRewrite ==
    /\ h_pc = "done"
    /\ h_query = Query_it_is
    /\ h_ctx # 0
    /\ h_gen_called

\* C10: the rewrite heuristic returns the original query or the generated
\* text (trimmed) with at most twice the original's words; a generated text
\* with more words is discarded for the original.
C10_RewriteWithinTwiceTheWords ==
    h_pc = "done" =>
        /\ \/ h_result = h_query
           \/ /\ h_gen_called
              /\ h_gen.ok
              /\ h_result = Strip(h_gen.text)
              /\ WordCount(h_result) <= 2 * WordCount(h_query)
        /\ (h_gen_called /\ h_gen.ok /\ WordCount(h_gen.text) > 2 * WordCount(h_query))
              => h_result = h_query

\* C10 witness: a rewrite of exactly twice the query's words was accepted.
C10_RewriteAtTheLimitAccepted ==
    /\ h_pc = "done"
    /\ h_gen_called
    /\ h_gen.ok
    /\ h_result # h_query
    /\ WordCount(h_result) = 2 * WordCount(h_query)

(***************************************************************************)
(* Claims about the routing, the paths and the outputs of a turn (checked  *)
(* under Spec).                                                            *)
(***************************************************************************)

\* the request's query contains a legal keyword (compared in lower case)
HasLegalKeyword(query) ==
    \E i \in 1..Len(legal_keywords) : Contains(Lower(query), legal_keywords[i])

\* how often a call occurs among the calls of the turn
EventCount(e) == Cardinality({ i \in 1..Len(c_events) : c_events[i] = e })

HasEvent(e) == EventCount(e) > 0

\* the stage of the turn a call belongs to
StageOf(e) ==
    CASE e = "classify" -> 1
      [] e = "fetch" -> 2
      [] e = "rewrite" -> 3
      [] e \in { "retrieve", "summarize", "decrement", "truncate" } -> 4
      [] e = "generate" -> 5
      [] e = "persist" -> 6
      [] e = "evaluate" -> 7
      [] e = "return" -> 8

\* no call of a later stage precedes a call of an earlier stage
StagesInOrder ==
    \A i \in 1..(Len(c_events) - 1) : StageOf(c_events[i]) <= StageOf(c_events[i + 1])

\* the turn stands right after the branch of line 240
JustRouted == c_path # "none" /\ Len(c_events) <= 2

TurnReturned == c_status \in { "returned", "http_200" }

\* C11, as stated: the turn takes GreetingShortcut if and only if the query is
\* classified Greeting and not Informational, and every query that contains
\* "?", is longer than 40 characters or contains a legal keyword takes
\* RetrievalFlow.
C11_RoutingAsStated ==
    JustRouted =>
        /\ (c_path = "GreetingShortcut")
              <=> (is_greeting(c_request) /\ ~is_informational(c_request))
        /\ (\/ Contains(c_request, << "?" >>)
            \/ Len(c_request) > InformationalLength
            \/ HasLegalKeyword(c_request)) => c_path = "RetrievalFlow"

\* C11, amended: the turn takes GreetingShortcut if and only if the query is
\* classified Greeting and not Informational, and every query that contains
\* "?", whose trimmed form is longer than 40 characters or that contains a
\* legal keyword takes RetrievalFlow. The path is the one taken at the branch:
\* only GreetingShortcut generates right after classifying.
C11_RoutingOnTrimmedLength ==
    /\ c_path # "none" =>
          /\ c_path \in { "GreetingShortcut", "RetrievalFlow" }
          /\ (c_path = "GreetingShortcut") <=> (Len(c_events) >= 2 /\ c_events[2] = "generate")
    /\ JustRouted =>
          /\ (c_path = "GreetingShortcut")
                <=> (is_greeting(c_request) /\ ~is_informational(c_request))
          /\ (\/ Contains(c_request, << "?" >>)
              \/ Len(Strip(c_request)) > InformationalLength
              \/ HasLegalKeyword(c_request)) => c_path = "RetrievalFlow"

\* C11 witness: "hi, what is Article 21?" has been routed to RetrievalFlow.
C11_GreetingTokenQueryRetrieved ==
    /\ c_request = Query_hi_article21
    /\ c_path = "RetrievalFlow"
    /\ JustRouted

\* C12, as stated: a turn returned from GreetingShortcut made no retrieval, no
\* context fetch, no rewrite and no summarization, generated with both contexts
\* empty, reports an empty retrieved context and used_k = 0, and appended the
\* user message and the assistant message.
C12_GreetingTurnAsStated ==
    (c_path = "GreetingShortcut" /\ TurnReturned) =>
        /\ ~HasEvent("retrieve") /\ ~HasEvent("fetch")
        /\ ~HasEvent("rewrite") /\ ~HasEvent("summarize")
        /\ c_rounds = 0 /\ c_summaries = 0 /\ ~c_rewrite_called
        /\ c_generated_with = [called |-> TRUE, context |-> 0, conversation_context |-> 0]
        /\ c_debug.retrieved_context_preview = 0
        /\ c_debug.used_k = 0
        /\ c_messages = << [sender |-> "user", text |-> c_request],
                           [sender |-> "assistant", text |-> << c_response_text >>] >>

\* C12, amended: as stated, except that the two messages are appended unless an
\* insert raises; the failure is then swallowed and only the messages inserted
\* before it are appended.
C12_GreetingTurnFrame ==
    (c_path = "GreetingShortcut" /\ TurnReturned) =>
        /\ ~HasEvent("retrieve") /\ ~HasEvent("fetch")
        /\ ~HasEvent("rewrite") /\ ~HasEvent("summarize")
        /\ c_rounds = 0 /\ c_summaries = 0 /\ ~c_rewrite_called
        /\ c_generated_with = [called |-> TRUE, context |-> 0, conversation_context |-> 0]
        /\ c_debug.retrieved_context_preview = 0
        /\ c_debug.used_k = 0
        /\ ~c_persist_failed =>
              c_messages = << [sender |-> "user", text |-> c_request],
                              [sender |-> "assistant", text |-> << c_response_text >>] >>
        /\ c_persist_failed =>
              \/ c_messages = << >>
              \/ c_messages = << [sender |-> "user", text |-> c_request] >>

\* C12 witness: the greeting "hi" answered and both messages appended.
C12_GreetingAnsweredAndStored ==
    /\ c_path = "GreetingShortcut"
    /\ c_request = Query_hi
    /\ c_status = "returned"
    /\ c_response_text = "answer"
    /\ Len(c_messages) = 2

\* C13: when the answer's generation failed, the error string takes the
\* answer's place and the turn is not aborted: chat returns.
C13_GenerationFailureStillReturns ==
    c_response_text = "error" => c_status \notin { "raised", "http_500" }

\* C14: the evaluation of the turn output is a structured result or null on
\* both paths; without a request or without an evaluator the evaluator is not
\* called and the evaluation is null; and once the evaluator was called the
\* turn has returned, whatever the evaluator did.
C14_EvaluationStructuredOrNull ==
    /\ c_status = "http_200" => c_evaluation \in { "dict", "null" }
    /\ (c_status = "http_200" /\ c_evaluator_outcome # "dict") => c_evaluation = "null"
    /\ (TurnReturned /\ ~(c_evaluate /\ c_evaluator)) =>
          /\ c_evaluation = "null"
          /\ c_evaluator_outcome = "none"
          /\ ~HasEvent("evaluate")
    /\ c_evaluator_outcome # "none" => (TurnReturned /\ c_response_text # "none")

\* C14 witness: a greeting turn whose evaluator returned a non-structured
\* value has been answered by the endpoint.
C14_NonStructuredEvaluationAnswered ==
    /\ c_status = "http_200"
    /\ c_path = "GreetingShortcut"
    /\ c_evaluator_outcome = "not_dict"

\* C15: a summary compaction that raises leaves the loop's conversation context
\* as it was and hands over to the k-decrement, or to the terminal truncation
\* when k is at minK.
C15_FailedSummaryKeepsContext ==
    [][ /\ (c_pc = "summarize" /\ c_summary_failed') =>
              /\ c_conversation_context' = c_conversation_context
              /\ c_pc' = "shrink"
              /\ c_status' = c_status
        /\ (c_pc = "shrink" /\ c_summary_failed) =>
              \/ c_k > min_k /\ c_pc' = "retrieve" /\ c_k' = c_k - 1
                    /\ c_conversation_context' = c_conversation_context
              \/ c_k <= min_k /\ c_exit' = "truncated" /\ c_pc' = "generate" ]_vars

\* C15 witness: a compaction has failed over a non-empty conversation context
\* and the loop stands before the k-decrement.
C15_CompactionFailedBeforeDecrement ==
    /\ c_pc = "shrink"
    /\ c_summary_failed
    /\ c_conversation_context > 0
    /\ c_k > min_k

\* C17: persistence never precedes the answer's generation and evaluation
\* never precedes persistence; the evaluator is called only on request and when
\* it exists; and a turn that returns has classified first, then (RetrievalFlow
\* only) fetched the context, rewritten and scheduled the budget, then generated
\* exactly once, then persisted, then evaluated at most once, then returned.
C17_TurnOrder ==
    /\ StagesInOrder
    /\ HasEvent("persist") => HasEvent("generate")
    /\ HasEvent("evaluate") => HasEvent("persist")
    /\ HasEvent("evaluate") => (c_evaluate /\ c_evaluator)
    /\ c_path = "GreetingShortcut" =>
          \A i \in 1..Len(c_events) : StageOf(c_events[i]) \notin { 2, 3, 4 }
    /\ TurnReturned =>
          /\ EventCount("classify") = 1
          /\ c_path = "RetrievalFlow" => HasEvent("retrieve")
          /\ EventCount("generate") = 1
          /\ EventCount("persist") = 1
          /\ EventCount("evaluate") <= 1
          /\ EventCount("return") = 1

\* C17 witness: a returned RetrievalFlow turn that fetched, rewrote, retrieved
\* twice, summarized and evaluated.
C17_FullTurnReturned ==
    /\ c_status = "returned"
    /\ c_path = "RetrievalFlow"
    /\ HasEvent("fetch") /\ HasEvent("rewrite") /\ HasEvent("summarize")
    /\ EventCount("retrieve") >= 2
    /\ HasEvent("evaluate")

\* C18: the used_k of the debug object is desiredK minus the number of
\* k-decrements, is the k of the last retrieval, and lies between minK and
\* desiredK whenever desiredK >= minK; desiredK = 5 with two decrements gives 3.
C18_UsedKIsDesiredMinusDecrements ==
    c_debug.note = "retrieval" =>
        /\ c_debug.used_k = c_desired_k - c_decrements
        /\ c_debug.used_k = c_retrieved_k
        /\ c_desired_k >= min_k => (min_k <= c_debug.used_k /\ c_debug.used_k <= c_desired_k)
        /\ (c_desired_k = 5 /\ min_k = 1 /\ c_decrements = 2) => c_debug.used_k = 3

\* C18 witness: desiredK = 5 and two decrements, reported in debug.
C18_TwoDecrementsReported ==
    /\ c_debug.note = "retrieval"
    /\ c_desired_k = 5
    /\ c_decrements = 2
    /\ c_exit = "fit"

\* C20: in RetrievalFlow the persisted user text is the query used for
\* retrieval and generation, rewritten or not; debug's original_query is
\* non-null, and then the request's query, exactly when the rewrite changed the
\* query, and query_rewritten is true exactly then.
C20_RewrittenQueryPersisted ==
    c_path = "RetrievalFlow" =>
        /\ Len(c_messages) >= 1 =>
              /\ c_messages[1].sender = "user"
              /\ c_messages[1].text = c_query
              /\ c_query # c_request => c_messages[1].text # c_request
        /\ c_debug.note = "retrieval" =>
              /\ c_debug.query_rewritten <=> (c_query # c_request)
              /\ c_debug.original_query.some <=> (c_query # c_request)
              /\ c_debug.original_query.some => c_debug.original_query.text = c_request
              /\ c_debug.rewritten_query.some => c_debug.rewritten_query.text = c_query
              /\ c_debug.query = estimate_tokens(Len(c_query))

\* C20 witness: a rewritten query has been persisted with its answer.
C20_RewrittenExchangeStored ==
    /\ c_path = "RetrievalFlow"
    /\ Len(c_messages) = 2
    /\ c_query # c_request
    /\ c_debug.original_query.some

\* the estimated total of the final contexts and the query
FinalTotal ==
    estimate_tokens(c_conversation_context) + estimate_tokens(c_retrieved_context)
    + c_query_tokens

\* what is left of availableTokens beside the half kept for the conversation
QueryShare == c_available - (c_available \div 2)

\* C24: after the terminal hard truncation the final estimated total is at
\* most availableTokens whenever the query's estimate is at most
\* availableTokens - floor(availableTokens / 2); the total exceeds
\* availableTokens only when the query alone exceeds that amount, and then the
\* retrieved context is empty.
C24_TruncationWithinBudget ==
    c_exit = "truncated" =>
        /\ c_query_tokens <= QueryShare => FinalTotal <= c_available
        /\ FinalTotal > c_available =>
              (c_query_tokens > QueryShare /\ c_retrieved_context = 0)

\* C24 witness: a truncation that cut a non-empty retrieved context to nothing
\* and still left the total above availableTokens.
C24_QueryAloneOverBudget ==
    /\ c_exit = "truncated"
    /\ HasEvent("truncate")
    /\ c_query_tokens > QueryShare
    /\ FinalTotal > c_available
    /\ c_retrieved_context = 0
    /\ c_tokens_total > c_query_tokens + estimate_tokens(c_conversation_context)

(***************************************************************************)
(* Claims about two turns of one session (checked under SpecSession).      *)
(***************************************************************************)

\* the turns whose exchanges precede position i of the session
TurnsBefore(i) == [j \in 1..(i - 1) |-> s_log[j].turn]

\* C16: when the turns of a session are serialized, every context read
\* observes all exchanges appended by earlier turns: a turn in flight holds the
\* whole session, and every appended exchange was read and answered with all
\* exchanges before it.
C16_SerializedTurnsSeeEarlierExchanges ==
    s_serialized =>
        /\ \A t \in Turns :
              (s_history[t] /\ s_pc[t] \in { "fetched", "generated" }) =>
                  s_seen[t] = StoreContext(s_log)
        /\ \A i \in 1..Len(s_log) :
              /\ s_log[i].seen = TurnsBefore(i)
              /\ s_log[i].answer.from = TurnsBefore(i)

\* C16 witness: without serialization both turns read the context before
\* either appended, and both exchanges were answered and appended without
\* the other's.
C16_BothReadBeforeEitherAppended ==
    /\ ~s_serialized
    /\ Len(s_log) = 2
    /\ s_log[1].seen = << >>
    /\ s_log[2].seen = << >>
    /\ s_log[2].answer.from = << >>

(***************************************************************************)
(* Claims about the lifetime of the pipeline (checked under SpecLife).     *)
(***************************************************************************)

\* C19: once a construction of the lexical scorer has failed, no later step
\* constructs it again, no hybrid retriever exists, and every later retrieval
\* is vector-only.
C19_NoRetryAfterScorerFailure ==
    [][ p_scorer_failed =>
           /\ p_scorer_attempts' = p_scorer_attempts
           /\ ~p_hybrid'
           /\ p_retrievals' # p_retrievals => p_mode' = "vector" ]_vars

\* C23: once the corpus has been loaded no later operation changes it, and
\* after any sequence of initialize calls it holds each processed passage
\* exactly once.
C23_CorpusFixedOnceLoaded ==
    [][ p_initialized => (p_documents' = p_documents /\ PassagesOnce(p_documents')) ]_vars

====
